---- MODULE Spec2Model ----
(***************************************************************************)
(* A model of the execution runtime of the Skynet agent (package core):    *)
(* the CancelManager (execution registry), the MemoryStore and its         *)
(* ChatSessions (session store), and the handlers that drive one turn      *)
(* (handleChat, handleStreamChat, executeWithStreaming,                    *)
(* handleStopExecution).                                                   *)
(*                                                                         *)
(* Specifications:                                                         *)
(*   SpecRegSeq  the CancelManager driven by one client, call after call   *)
(*   SpecReg     the CancelManager driven by concurrent callers            *)
(*   SpecStore   the MemoryStore driven by concurrent clients              *)
(*   Spec        concurrent turns, stop requests, deadlines                *)
(***************************************************************************)
EXTENDS Integers, Sequences, FiniteSets, TLC

\* ---------------------------------------------------------------- bounds
\* The clock (time.Now) takes the values 0..MaxTime.
MaxTime == 2
\* The wall clock's UnixNano readings are 0..MaxExecId.
MaxExecId == 1
\* Registry calls the test driver of SpecReg/SpecRegSeq makes.
MaxOps == 4
\* ChatSession objects ever allocated.
MaxSessions == 2
\* Messages a session holds (an append to a full session is not offered).
MaxMessages == 2

\* ---------------------------------------------------------------- sets
\* The turns (requests to /chat or /chat/stream); each owns the context and
\* the cancel function context.WithTimeout returns for it.
Runs == {"r1", "r2"}
\* The requests to /stop, and the callers of CancelExecution.
Callers == {"k1", "k2"}
\* No cancel function: the zero value of a map lookup that misses.
NoHandle == "none"
\* Execution identifiers: "exec_<UnixNano>", identified with the wall clock's
\* reading. The wall clock can be set back, and two readings can agree, so a
\* reading is any of the values.
ExecIds == 0..MaxExecId
\* The empty execution id of a stop request.
EmptyId == -1

\* Session ids a client makes up (an id no session was ever created under).
ClientIds == {"sid_x"}
\* generateSessionID: "session_" + 32 hex digits from crypto/rand, the n-th
\* draw differing from every earlier id; or, when rand.Read fails,
\* "session_<UnixNano>".
RandIds == <<"session_a", "session_b", "session_c", "session_d", "session_e", "session_f">>
TimeIds == <<"session_0", "session_1", "session_2", "session_3", "session_4", "session_5">>
\* No session: the nil *ChatSession.
NoSession == 0
NoCycle == -1
\* No slice: the client has not called GetAllSessions.
NoList == [ptrs |-> {}, seen |-> <<>>, called |-> FALSE]

VARIABLES
    now,          \* time.Now()
    executions,   \* CancelManager.executions: execution id -> cancel function
    ctxErr,       \* ctx.Err() of each run's context
    triggered,    \* times CancelExecution invoked each cancel function
    stop,         \* the CancelExecution calls in progress, one per caller
    regLog,       \* the registry calls the test driver has completed, in order
    heap,         \* the ChatSession objects allocated so far; a *ChatSession is an index
    sessions,     \* MemoryStore.sessions: session id -> *ChatSession
    held,         \* the *ChatSession (session) each client or handler holds
    run,          \* the handler of each turn: its request, locals and output
    stoppedLive,  \* turns for which CancelExecution returned true between their
                  \* registration and their last event
    lastCycle,    \* when the cleanup goroutine's latest cycle ran (NoCycle before the first)
    listed,       \* what GetAllSessions returned to each client, and what it showed then
    cleanLog,     \* a response and what successive calls of cleanAgentResponse made of it
    handler,      \* the counters of a StreamingCallbackHandler
    sent,         \* the events that handler has passed to its streamFunc
    mutex,        \* the sync.RWMutex of the store, of the registry and of each session
    goroutine,    \* the operation each goroutine is in, and where in its locking
    timeNow       \* the time.Now() a call has evaluated and not yet stored in Updated

regVars == <<executions, ctxErr, triggered, stop, regLog>>
storeVars == <<heap, sessions, held>>
runVars == <<run, stoppedLive>>
lockVars == <<mutex, goroutine>>
obsVars == <<lastCycle, listed, cleanLog, handler, sent, lockVars, timeNow>>

\* ------------------------------------------------------- CancelManager
\* NewCancelManager: an empty registry.
NewCancelManager == [id \in ExecIds |-> NoHandle]

\* context.CancelFunc: the first call sets the context's error to Canceled,
\* later calls (and calls after the deadline) do nothing.
CancelFunc(errs, t) ==
    IF errs[t] = "nil" THEN [errs EXCEPT ![t] = "Canceled"] ELSE errs

\* AddExecution: cm.executions[executionID] = cancel.
AddExecutionBroken(m, id, t) == m
AddExecution(m, id, t) == [m EXCEPT ![id] = t]

\* RemoveExecution: delete(cm.executions, executionID).
RemoveExecutionBroken(m, id) == m
RemoveExecution(m, id) == [m EXCEPT ![id] = NoHandle]

\* GetActiveExecutions: the ids that have an entry.
GetActiveExecutions(m) == {id \in ExecIds : m[id] # NoHandle}

IdleStop == [pc |-> "idle", id |-> EmptyId, fn |-> NoHandle, ret |-> FALSE]

\* CancelExecution, first critical section: the lookup under the read lock.
CancelExecutionLookup(k, id) ==
    /\ stop[k].pc = "idle"
    /\ stop' = [stop EXCEPT ![k] =
                  [pc |-> IF executions[id] # NoHandle THEN "found" ELSE "return",
                   id |-> id, fn |-> executions[id],
                   ret |-> executions[id] # NoHandle]]

\* CancelExecution, the call of cancel() with no lock held.
CancelExecutionInvoke(k) ==
    /\ stop[k].pc = "found"
    /\ ctxErr' = CancelFunc(ctxErr, stop[k].fn)
    /\ triggered' = [triggered EXCEPT ![stop[k].fn] = @ + 1]
    /\ stop' = [stop EXCEPT ![k].pc = "invoked"]

\* CancelExecution, second critical section: cm.RemoveExecution(executionID).
CancelExecutionRemove(k) ==
    /\ stop[k].pc = "invoked"
    /\ executions' = RemoveExecution(executions, stop[k].id)
    /\ stop' = [stop EXCEPT ![k].pc = "return"]

\* ------------------------------------------------- cleanAgentResponse
\* A text is a sequence of tokens. A token is a marker of the agent format or
\* a tag, a white-space character, or a run of prose that contains neither.
\* Two tokens are the halves of a tag: "<thi" followed at once by "nk>" is the
\* string "<think>", so texts are kept with such a pair joined (JoinTags), and
\* a marker or a tag occurs in a text exactly where its token does.
NL == "\n"
SP == " "
IsSpace(tok) == tok \in {NL, SP}

\* len() of a token in bytes; "w<n>" is prose of n bytes.
TokLen(tok) ==
    CASE tok = "w5" -> 5
      [] tok = "w50" -> 50
      [] tok = "I Don't" -> 7
      [] tok = "w60" -> 60
      [] tok = "i don't" -> 7
      [] tok = "Thought:" -> 8
      [] tok = "Action:" -> 7
      [] tok = "Action Input:" -> 13
      [] tok = "Final Answer:" -> 13
      [] tok = "Observation:" -> 12
      [] tok = "<think>" -> 7
      [] tok = "<thi" -> 4
      [] tok = "nk>" -> 3
      [] tok = "</think>" -> 8
      [] tok = "<reasoning>" -> 11
      [] tok = "</reasoning>" -> 12
      [] tok = " I can provide a direct answer to this question." -> 48
      [] tok = "I understand your request but need to process it differently. Could you please rephrase your question?" -> 102
      [] OTHER -> 1

RECURSIVE TextLen(_)
TextLen(txt) == IF txt = <<>> THEN 0 ELSE TokLen(Head(txt)) + TextLen(Tail(txt))

\* strings.Contains for a marker.
Contains(txt, tok) == \E i \in 1..Len(txt) : txt[i] = tok

\* The first index >= from where tok occurs, or 0.
IndexFrom(txt, tok, from) ==
    IF \E i \in from..Len(txt) : txt[i] = tok
    THEN CHOOSE i \in from..Len(txt) : txt[i] = tok /\ \A j \in from..(i - 1) : txt[j] # tok
    ELSE 0

Drop(txt, n) == SubSeq(txt, n + 1, Len(txt))

\* The string left by ReplaceAllString(..., ""): what stood on the two sides
\* of a removed match is now adjacent, and the halves of a tag form the tag.
RECURSIVE JoinTags(_)
JoinTags(txt) ==
    IF Len(txt) < 2 THEN txt
    ELSE IF txt[1] = "<thi" /\ txt[2] = "nk>" THEN <<"<think>">> \o JoinTags(Drop(txt, 2))
    ELSE <<Head(txt)>> \o JoinTags(Tail(txt))

\* regexp (?s)<open>.*?</close> replaced by "": every opening tag with the
\* nearest closing tag after it, scanning left to right.
RECURSIVE StripBlocks(_, _, _)
StripBlocks(txt, open, close) ==
    LET i == IndexFrom(txt, open, 1)
        j == IF i = 0 THEN 0 ELSE IndexFrom(txt, close, i + 1) IN
    IF i = 0 \/ j = 0 THEN txt
    ELSE SubSeq(txt, 1, i - 1) \o StripBlocks(Drop(txt, j), open, close)

\* regexp <think>.* replaced by "": "." stops at a newline, so an opening tag
\* goes with the rest of its line only.
RECURSIVE StripOpenTag(_)
StripOpenTag(txt) ==
    LET i == IndexFrom(txt, "<think>", 1)
        n == IF i = 0 THEN 0 ELSE IndexFrom(txt, NL, i + 1) IN
    IF i = 0 THEN txt
    ELSE IF n = 0 THEN SubSeq(txt, 1, i - 1)
    ELSE SubSeq(txt, 1, i - 1) \o StripOpenTag(Drop(txt, n - 1))

\* strings.TrimSpace.
RECURSIVE TrimLeft(_)
TrimLeft(txt) ==
    IF txt # <<>> /\ IsSpace(Head(txt)) THEN TrimLeft(Tail(txt)) ELSE txt
RECURSIVE TrimRight(_)
TrimRight(txt) ==
    IF txt # <<>> /\ IsSpace(txt[Len(txt)]) THEN TrimRight(SubSeq(txt, 1, Len(txt) - 1)) ELSE txt
TrimSpace(txt) == TrimRight(TrimLeft(txt))

\* The length of the run of white space that starts at index i.
RECURSIVE SpaceRun(_, _)
SpaceRun(txt, i) ==
    IF i <= Len(txt) /\ IsSpace(txt[i]) THEN 1 + SpaceRun(txt, i + 1) ELSE 0

\* The last index in i..j where a newline occurs, or 0.
LastNewline(txt, i, j) ==
    IF \E k \in i..j : txt[k] = NL
    THEN CHOOSE k \in i..j : txt[k] = NL /\ \A l \in (k + 1)..j : txt[l] # NL
    ELSE 0

Newlines(txt, i, j) == Cardinality({k \in i..j : txt[k] = NL})

\* regexp \n\s*\n\s*\n+ replaced by "\n\n": in a run of white space, the part
\* from a newline to the last newline of the run, when it holds three or more.
RECURSIVE CollapseNewlines(_)
CollapseNewlines(txt) ==
    IF txt = <<>> THEN <<>>
    ELSE IF Head(txt) # NL THEN <<Head(txt)>> \o CollapseNewlines(Tail(txt))
    ELSE LET ws == SpaceRun(txt, 1)
             end == LastNewline(txt, 1, ws) IN
         IF Newlines(txt, 1, ws) >= 3
         THEN <<NL, NL>> \o CollapseNewlines(Drop(txt, end))
         ELSE <<NL>> \o CollapseNewlines(Tail(txt))

\* "Action Input:" at index i starts a line.
AtLineStart(txt, i) == txt[i] = "Action Input:" /\ (i = 1 \/ txt[i - 1] = NL)

\* regexp (?m)^Action Input:\s*$ : the white space matched after the marker
\* at index i (the longest that ends at a line end), or -1 when none does.
EmptyInputSpan(txt, i) ==
    LET ws == SpaceRun(txt, i + 1) IN
    IF i + ws = Len(txt) THEN ws
    ELSE LET n == LastNewline(txt, i + 1, i + ws) IN
         IF n = 0 THEN -1 ELSE n - 1 - i

RECURSIVE FixEmptyInput(_, _)
FixEmptyInput(txt, i) ==
    IF i > Len(txt) THEN <<>>
    ELSE IF AtLineStart(txt, i) /\ EmptyInputSpan(txt, i) >= 0
    THEN <<"Action Input:", SP>> \o FixEmptyInput(txt, i + EmptyInputSpan(txt, i) + 1)
    ELSE <<txt[i]>> \o FixEmptyInput(txt, i + 1)

\* regexp (?m)^Action Input:\s*\n : the white space matched after the marker
\* at index i, through the last newline of the run, or 0 when there is none.
InputNewlineSpan(txt, i) ==
    LET n == LastNewline(txt, i + 1, i + SpaceRun(txt, i + 1)) IN
    IF n = 0 THEN 0 ELSE n - i

RECURSIVE FixInputNewline(_, _)
FixInputNewline(txt, i) ==
    IF i > Len(txt) THEN <<>>
    ELSE IF AtLineStart(txt, i) /\ InputNewlineSpan(txt, i) > 0
    THEN <<"Action Input:", SP, NL>> \o FixInputNewline(txt, i + InputNewlineSpan(txt, i) + 1)
    ELSE <<txt[i]>> \o FixInputNewline(txt, i + 1)

hasAgentFormat(txt) ==
    \/ Contains(txt, "Thought:")
    \/ Contains(txt, "Action:")
    \/ Contains(txt, "Final Answer:")
    \/ Contains(txt, "Observation:")

FallbackMessageNone == <<>>
FallbackMessage ==
    <<"I understand your request but need to process it differently. Could you please rephrase your question?">>

\* The direct answer wrapped as a one-step trace.
WrapDirect(txt) ==
    <<"Thought:", " I can provide a direct answer to this question.", NL, "Final Answer:", SP>> \o txt

\* strings.ToLower, as far as the search for "i don't" sees it.
ToLower(txt) == [i \in 1..Len(txt) |-> IF txt[i] = "I Don't" THEN "i don't" ELSE txt[i]]

\* "a substantial response (not just an error or short text)".
looksSubstantialAt50(txt) == TextLen(txt) >= 50 /\ ~Contains(ToLower(txt), "i don't")
looksSubstantial(txt) == TextLen(txt) > 50 /\ ~Contains(ToLower(txt), "i don't")

\* cleanAgentResponse up to its classification: the tags removed, the white
\* space trimmed and collapsed, the empty Action Input fields filled.
stripAndRepair(response) ==
    LET c1 == JoinTags(StripBlocks(response, "<think>", "</think>"))
        c2 == JoinTags(StripOpenTag(c1))
        c3 == JoinTags(StripBlocks(c2, "<reasoning>", "</reasoning>"))
        c4 == TrimSpace(c3)
        c5 == CollapseNewlines(c4)
        c6 == FixEmptyInput(c5, 1)
        c7 == FixInputNewline(c6, 1) IN
    c7

\* cleanAgentResponse: the wrapping of a direct answer, then the fallback for
\* an empty result.
cleanAgentResponse(response) ==
    LET wrapped(c7) == IF ~hasAgentFormat(c7) /\ c7 # <<>> /\ looksSubstantial(c7)
                       THEN WrapDirect(c7) ELSE c7
        orFallback(c8) == IF c8 = <<>> THEN FallbackMessage ELSE c8 IN
    orFallback(wrapped(stripAndRepair(response)))

\* --------------------------------------------------------- MemoryStore
\* The texts of turn r: its request message and the engine's final answer.
\* Texts are sequences of tokens; distinct texts per turn show, for every
\* stored message, which turn it came from.
ReqMessage(r) == <<"msg", r>>
Answer(r) == <<"ans", r>>

\* Config.SessionMaxAge (SESSION_MAX_AGE), set to one clock tick.
SessionMaxAge == 1

\* generateSessionID, given whether rand.Read succeeded.
generateSessionID(randOk, h, t) ==
    IF randOk THEN RandIds[Len(h) + 1] ELSE TimeIds[t + 1]

\* ChatMessage (its Timestamp, written once and never read, is left out).
ChatMessage(role, content) == [Role |-> role, Content |-> content]

\* The ChatSession GetOrCreateSession allocates.
\* mutex is the session's own lock: "free", or the client inside AddMessage.
NewChatSession(id, t) ==
    [ID |-> id, Messages |-> <<>>, Created |-> t, Updated |-> t, mutex |-> "free"]

\* AddMessage up to its append: the session's lock is taken by client c and
\* the message appended.
AddMessageAppend(sess, role, content, c) ==
    [sess EXCEPT !.Messages = Append(@, ChatMessage(role, content)), !.mutex = c]

\* AddMessage from there: s.Updated = time.Now() and the deferred Unlock.
AddMessageTouch(sess, t) == [sess EXCEPT !.Updated = t, !.mutex = "free"]

\* AddMessage as one step: append under the session's lock and refresh Updated.
AddMessagePrepends(sess, role, content, t) ==
    [sess EXCEPT !.Messages = <<ChatMessage(role, content)>> \o @, !.Updated = t]
AddMessage(sess, role, content, t) ==
    AddMessageTouch(AddMessageAppend(sess, role, content, "free"), t)

\* ClearMessages: a fresh empty slice; returns the count removed.
ClearMessages(sess, t) == [sess EXCEPT !.Messages = <<>>, !.Updated = t]

\* GetRecentMessages: the last limit messages, or all when there are fewer.
GetRecentMessages(sess, limit) ==
    IF Len(sess.Messages) <= limit THEN sess.Messages
    ELSE SubSeq(sess.Messages, Len(sess.Messages) - limit + 1, Len(sess.Messages))

\* The session GetOrCreateSession returns for sessionID, with the heap and the
\* map it leaves.
GetOrCreateSessionAgain(h, m, sessionID, randOk, t) ==
    LET id == IF sessionID = "" THEN generateSessionID(randOk, h, t) ELSE sessionID IN
    [heap |-> Append(h, NewChatSession(id, t)),
     sessions |-> [x \in DOMAIN m \cup {id} |-> IF x = id THEN Len(h) + 1 ELSE m[x]],
     session |-> Len(h) + 1, created |-> TRUE]
GetOrCreateSessionShared(h, m, sessionID, randOk, t) ==
    LET id == IF sessionID = "" THEN RandIds[1] ELSE sessionID IN
    IF id \in DOMAIN m
    THEN [heap |-> [h EXCEPT ![m[id]].Updated = t], sessions |-> m,
          session |-> m[id], created |-> FALSE]
    ELSE [heap |-> Append(h, NewChatSession(id, t)),
          sessions |-> m @@ (id :> Len(h) + 1),
          session |-> Len(h) + 1, created |-> TRUE]
GetOrCreateSession(h, m, sessionID, randOk, t) ==
    LET id == IF sessionID = "" THEN generateSessionID(randOk, h, t) ELSE sessionID IN
    IF id \in DOMAIN m
    THEN [heap |-> [h EXCEPT ![m[id]].Updated = t], sessions |-> m,
          session |-> m[id], created |-> FALSE]
    ELSE [heap |-> Append(h, NewChatSession(id, t)),
          sessions |-> m @@ (id :> Len(h) + 1),
          session |-> Len(h) + 1, created |-> TRUE]

\* GetSession: the lookup, refreshing Updated on a hit.
GetSessionCreates(h, m, sessionID, t) ==
    IF sessionID \in DOMAIN m
    THEN [heap |-> [h EXCEPT ![m[sessionID]].Updated = t],
          session |-> m[sessionID], exists |-> TRUE]
    ELSE [heap |-> Append(h, NewChatSession(sessionID, t)),
          session |-> Len(h) + 1, exists |-> TRUE]
GetSession(h, m, sessionID, t) ==
    IF sessionID \in DOMAIN m
    THEN [heap |-> [h EXCEPT ![m[sessionID]].Updated = t],
          session |-> m[sessionID], exists |-> TRUE]
    ELSE [heap |-> h, session |-> NoSession, exists |-> FALSE]

\* The bool DeleteSession returns: whether sessionID was in the map.
DeleteSessionExists(m, sessionID) == sessionID \in DOMAIN m

\* DeleteSession: delete(m.sessions, sessionID).
DeleteSession(m, sessionID) == [id \in DOMAIN m \ {sessionID} |-> m[id]]

\* GetAllSessions: the pointers in the map.
GetAllSessions(m) == {m[id] : id \in DOMAIN m}

\* One cycle of cleanupExpiredSessions: the ids whose session was last
\* updated more than maxAge ago, and the map without them.
ExpiredIdsLate(h, m, t) == {id \in DOMAIN m : t - h[m[id]].Updated > SessionMaxAge + 1}
ExpiredIds(h, m, t) == {id \in DOMAIN m : t - h[m[id]].Updated > SessionMaxAge}
CleanupExpired(h, m, t) ==
    [id \in DOMAIN m \ ExpiredIds(h, m, t) |-> m[id]]

\* ------------------------------------------------ the MemoryStore's clients
\* The ids a client can send: none, a made-up one, or one a session was
\* created under.
KnownIds == {heap[p].ID : p \in 1..Len(heap)}
SessionIdInputs == {""} \cup ClientIds \cup KnownIds

\* What a client appends: the message of a turn as user, or its answer as
\* assistant.
AppendInputs == {<<"user", ReqMessage("r1")>>, <<"assistant", Answer("r1")>>}

StoreGetOrCreate(c, id, randOk) ==
    LET g == GetOrCreateSession(heap, sessions, id, randOk, now) IN
    /\ Len(g.heap) <= MaxSessions
    /\ heap' = g.heap
    /\ sessions' = g.sessions
    /\ held' = [held EXCEPT ![c] = g.session]
    /\ UNCHANGED <<now, regVars, runVars, obsVars>>

StoreGet(c, id) ==
    LET g == GetSession(heap, sessions, id, now) IN
    /\ id # ""
    /\ heap' = g.heap
    /\ held' = [held EXCEPT ![c] = g.session]
    /\ UNCHANGED <<now, sessions, regVars, runVars, obsVars>>

StoreDelete(id) ==
    /\ id # ""
    /\ sessions' = DeleteSession(sessions, id)
    /\ UNCHANGED <<now, heap, held, regVars, runVars, obsVars>>

StoreAddMessage(c, in) ==
    /\ held[c] # NoSession
    /\ Len(heap[held[c]].Messages) < MaxMessages
    /\ heap' = [heap EXCEPT ![held[c]] = AddMessage(@, in[1], in[2], now)]
    /\ UNCHANGED <<now, sessions, held, regVars, runVars, obsVars>>

StoreClearMessages(c) ==
    /\ held[c] # NoSession
    /\ heap' = [heap EXCEPT ![held[c]] = ClearMessages(@, now)]
    /\ UNCHANGED <<now, sessions, held, regVars, runVars, obsVars>>

\* handleListSessions: GetAllSessions returns a new slice of the stored
\* *ChatSession pointers, which the handler then encodes. What the sessions
\* showed when the slice was returned is noted next to it.
StoreList(c) ==
    /\ listed' = [listed EXCEPT ![c] =
                    [ptrs |-> GetAllSessions(sessions),
                     seen |-> [p \in GetAllSessions(sessions) |->
                                 [ID |-> heap[p].ID, Messages |-> heap[p].Messages]],
                     called |-> TRUE]]
    /\ UNCHANGED <<now, regVars, storeVars, runVars, lastCycle, cleanLog, handler, sent, lockVars, timeNow>>

\* AddMessage in two steps, for the clients of the cleanup goroutine: the
\* goroutine reads session.Updated under the store's lock only, so its cycle
\* can come between a call's append and its write of Updated.
StoreAppendBegin(c, in) ==
    /\ held[c] # NoSession
    /\ heap[held[c]].mutex = "free"
    /\ Len(heap[held[c]].Messages) < MaxMessages
    /\ heap' = [heap EXCEPT ![held[c]] = AddMessageAppend(@, in[1], in[2], c)]
    /\ UNCHANGED <<now, sessions, held, regVars, runVars, obsVars>>

StoreAppendEnd(c) ==
    /\ held[c] # NoSession
    /\ heap[held[c]].mutex = c
    /\ heap' = [heap EXCEPT ![held[c]] = AddMessageTouch(@, now)]
    /\ UNCHANGED <<now, sessions, held, regVars, runVars, obsVars>>

\* Client c is inside AddMessage.
InAppend(c) == held[c] # NoSession /\ heap[held[c]].mutex = c

\* The background goroutine's cycle, under the store's write lock.
Cleanup ==
    /\ sessions' = CleanupExpired(heap, sessions, now)
    /\ lastCycle' = now
    /\ UNCHANGED <<now, heap, held, regVars, runVars, listed, cleanLog, handler, sent, lockVars, timeNow>>

\* Time passes.
Tick ==
    /\ now < MaxTime
    /\ now' = now + 1
    /\ UNCHANGED <<regVars, storeVars, runVars, obsVars>>

\* ------------------------------------------------ the refreshes of Updated
\* The calls that end with Updated = time.Now(), in two steps each: the call
\* takes its lock and evaluates time.Now(); it stores the value and unlocks.
\* GetSession runs under the store's read lock and GetOrCreateSession under
\* its write lock, AddMessage and ClearMessages under the session's own.
RefreshOps == {"GetSession", "GetOrCreateSession", "AddMessage", "ClearMessages"}

NoRead == [op |-> "none", s |-> NoSession, t |-> 0]

\* Client c is inside a call that holds the store's mutex.
InStore(c) == timeNow[c].op \in {"GetSession", "GetOrCreateSession"}

\* The call takes its lock (and AddMessage appends), and evaluates time.Now().
RefreshBegin(c, op, id) ==
    /\ timeNow[c].op = "none"
    /\ IF op \in {"GetSession", "GetOrCreateSession"}
       THEN /\ id \in DOMAIN sessions
            /\ \A d \in Runs : timeNow[d].op # "GetOrCreateSession"
            /\ op = "GetOrCreateSession" => \A d \in Runs : ~InStore(d)
            /\ heap' = heap
            /\ timeNow' = [timeNow EXCEPT ![c] = [op |-> op, s |-> sessions[id], t |-> now]]
       ELSE /\ held[c] # NoSession
            /\ heap[held[c]].mutex = "free"
            /\ op = "AddMessage" => Len(heap[held[c]].Messages) < MaxMessages
            /\ heap' = [heap EXCEPT ![held[c]] =
                          IF op = "AddMessage" THEN AddMessageAppend(@, "user", ReqMessage(c), c)
                          ELSE [@ EXCEPT !.mutex = c]]
            /\ timeNow' = [timeNow EXCEPT ![c] = [op |-> op, s |-> held[c], t |-> now]]
    /\ UNCHANGED <<now, sessions, held, regVars, runVars, lastCycle, listed, cleanLog, handler, sent, lockVars>>

RefreshEnd(c) ==
    /\ timeNow[c].op # "none"
    /\ heap' = [heap EXCEPT ![timeNow[c].s] =
                  IF timeNow[c].op = "AddMessage" THEN AddMessageTouch(@, timeNow[c].t)
                  ELSE IF timeNow[c].op = "ClearMessages"
                  THEN [ClearMessages(@, timeNow[c].t) EXCEPT !.mutex = "free"]
                  ELSE [@ EXCEPT !.Updated = timeNow[c].t]]
    /\ held' = [held EXCEPT ![c] = timeNow[c].s]
    /\ timeNow' = [timeNow EXCEPT ![c] = NoRead]
    /\ UNCHANGED <<now, sessions, regVars, runVars, lastCycle, listed, cleanLog, handler, sent, lockVars>>

\* ------------------------------------------------------------ the turns
\* Config.ContextLimit (CONTEXT_LIMIT): the messages GetConversationContext
\* renders, set to two.
ContextLimit == 2

\* An error value, by what err.Error() contains.
NilErr == [kind |-> "nil", raw |-> <<>>]
Err(kind) == [kind |-> kind, raw |-> <<>>]
\* "unable to parse agent output: " followed by the rejected text.
ParseErr(raw) == [kind |-> "unable to parse", raw |-> raw]

\* The texts the engine's parser is taken to reject.
RawOutputs == {<<"<think>", "w5", "</think>", NL, "w60">>, <<"Thought:", SP, "w5">>}

\* How a call of chains.Run can end: a final answer; an error of the engine or
\* of the executor's setup; the iteration limit; the parser rejecting the
\* model's text; a panic; and, once the context is done, the context's error.
\* debug: the events the executor's callbacks sent while it ran, none here
\* (the shared executor of handleChat has no streaming callbacks, nor has
\* executeWithStreaming with DebugMode off).
EngineOutcomes(cerr) ==
    {[kind |-> "answer", raw |-> <<>>, debug |-> <<>>],
     [kind |-> "engine", raw |-> <<>>, debug |-> <<>>],
     [kind |-> "max iterations", raw |-> <<>>, debug |-> <<>>],
     [kind |-> "panic", raw |-> <<>>, debug |-> <<>>]}
    \cup {[kind |-> "unable to parse", raw |-> raw, debug |-> <<>>] : raw \in RawOutputs}
    \cup (IF cerr = "Canceled" THEN {[kind |-> "context canceled", raw |-> <<>>, debug |-> <<>>]}
          ELSE IF cerr = "DeadlineExceeded"
          THEN {[kind |-> "context deadline exceeded", raw |-> <<>>, debug |-> <<>>]} ELSE {})

\* A StreamMessage; Debug, Iteration and Step are left at their zero values
\* where the code does not set them.
StreamMessage(type, content, complete) ==
    [Type |-> type, Content |-> content, Complete |-> complete,
     Debug |-> FALSE, Iteration |-> 0, Step |-> <<>>, Details |-> {}]

\* Config.DebugMode (DEBUG_MODE), at its default.
DebugMode == TRUE

\* The two thinking events of executeWithStreaming, with Debug: debug.
ThinkingMessage(content, debug) ==
    [StreamMessage("thinking", content, FALSE) EXCEPT !.Debug = debug]

\* ------------------------------------------- StreamingCallbackHandler
\* NewStreamingCallbackHandler: the counters of the embedded
\* VerboseCallbackHandler.
NewStreamingCallbackHandler == [iteration |-> 0, step |-> 0]

\* Config.LogTruncateLength (LOG_TRUNCATE_LENGTH), set to one byte.
LogTruncateLength == 1

\* The texts the executor hands to the callbacks, byte by byte: one of
\* LogTruncateLength bytes, one a byte longer, and one of MaxTextLen bytes.
MaxTextLen == 5
LogTexts ==
    {[i \in 1..n |-> "c"] : n \in {LogTruncateLength, LogTruncateLength + 1, MaxTextLen}}

\* truncateForLog: the text, or its first LogTruncateLength bytes and "...".
truncateForLog(text) ==
    IF Len(text) <= LogTruncateLength THEN text
    ELSE SubSeq(text, 1, LogTruncateLength) \o <<".", ".", ".">>

\* The callbacks of the executor: the method called with its text (the
\* prompt, the model's response, the tool's input or output, the chain's
\* input or output) and, for an agent action or finish, the agent's log.
CallbackInputs ==
    {[fn |-> f, text |-> t, log |-> <<>>] :
        f \in {"HandleChainStart", "HandleLLMStart", "HandleLLMGenerateContentEnd",
               "HandleToolStart", "HandleToolEnd", "HandleChainEnd"},
        t \in LogTexts}
    \cup {[fn |-> f, text |-> t, log |-> l] :
            f \in {"HandleAgentAction", "HandleAgentFinish"}, t \in LogTexts, l \in LogTexts}

\* The VerboseCallbackHandler method: HandleLLMStart counts the iteration
\* and sets step to 0; the others only log.
VerboseCallback(h, cb) ==
    IF cb.fn = "HandleLLMStart" THEN [iteration |-> h.iteration + 1, step |-> 0] ELSE h

\* The StreamingCallbackHandler method: the embedded handler's, then h.step++.
StreamingCallbackNoStep(h, cb) == VerboseCallback(h, cb)
StreamingCallback(h, cb) == [VerboseCallback(h, cb) EXCEPT !.step = @ + 1]

StepName(cb) ==
    CASE cb.fn = "HandleChainStart" -> "chain_start"
      [] cb.fn = "HandleLLMStart" -> "llm_start"
      [] cb.fn = "HandleLLMGenerateContentEnd" -> "llm_response"
      [] cb.fn = "HandleAgentAction" -> "agent_action"
      [] cb.fn = "HandleToolStart" -> "tool_start"
      [] cb.fn = "HandleToolEnd" -> "tool_end"
      [] cb.fn = "HandleAgentFinish" -> "agent_finish"
      [] cb.fn = "HandleChainEnd" -> "chain_end"

DebugContent(cb) ==
    CASE cb.fn = "HandleChainStart" -> "Agent chain execution started"
      [] cb.fn = "HandleLLMStart" -> "LLM call started"
      [] cb.fn = "HandleLLMGenerateContentEnd" -> "LLM response generated"
      [] cb.fn = "HandleAgentAction" -> "Agent chose to use tool: "
      [] cb.fn = "HandleToolStart" -> "Tool execution started"
      [] cb.fn = "HandleToolEnd" -> "Tool execution completed"
      [] cb.fn = "HandleAgentFinish" -> "Agent finished successfully"
      [] cb.fn = "HandleChainEnd" -> "Agent chain execution completed"

\* The texts in the Details map of the method's event, by key (the counts
\* and lengths in the map are left out).
Details(cb) ==
    CASE cb.fn = "HandleChainStart" -> {<<"inputs", cb.text>>}
      [] cb.fn = "HandleLLMStart" -> {<<"firstPromptPreview", truncateForLog(cb.text)>>}
      [] cb.fn = "HandleLLMGenerateContentEnd" -> {<<"responsePreview", truncateForLog(cb.text)>>}
      [] cb.fn = "HandleAgentAction" -> {<<"toolInput", cb.text>>, <<"reasoning", cb.log>>}
      [] cb.fn = "HandleToolStart" -> {<<"toolInput", cb.text>>}
      [] cb.fn = "HandleToolEnd" -> {<<"toolOutput", truncateForLog(cb.text)>>}
      [] cb.fn = "HandleAgentFinish" -> {<<"finalResponse", cb.text>>, <<"reasoning", cb.log>>}
      [] cb.fn = "HandleChainEnd" -> {<<"outputs", cb.text>>}

\* The event the method passes to streamFunc, h being the counters after
\* h.step++; Step is fmt.Sprintf("<name>_%d", h.step).
DebugMessage(h, cb) ==
    [Type |-> "debug", Content |-> <<DebugContent(cb)>>, Complete |-> FALSE,
     Debug |-> TRUE, Iteration |-> h.iteration, Step |-> <<StepName(cb), h.step>>,
     Details |-> Details(cb)]

\* The events a handler with counters h sends for the callbacks cbs.
RECURSIVE RunCallbacks(_, _)
RunCallbacks(h, cbs) ==
    IF cbs = <<>> THEN <<>>
    ELSE LET h2 == StreamingCallback(h, Head(cbs)) IN
         <<DebugMessage(h2, Head(cbs))>> \o RunCallbacks(h2, Tail(cbs))

\* The callbacks of two calls of chains.Run: none before its end, or the
\* start of the chain and of the first LLM call.
CallbackRuns ==
    {<<>>,
     <<[fn |-> "HandleChainStart", text |-> <<"c">>, log |-> <<>>],
       [fn |-> "HandleLLMStart", text |-> <<"c">>, log |-> <<>>]>>}

\* What the StreamingCallbackHandler of the debug executor sends during a
\* call of chains.Run.
DebugTraces == {RunCallbacks(NewStreamingCallbackHandler, cbs) : cbs \in CallbackRuns}

\* The outcomes of chains.Run on the debug executor (DebugMode on).
\* One more rejected text here: an unclosed "<think>" before a thought, which
\* cleanAgentResponse turns into the fallback message.
EngineOutcomesDebug(cerr) ==
    {[o EXCEPT !.debug = d] :
        o \in EngineOutcomes(cerr)
                \cup {[kind |-> "unable to parse", raw |-> <<"<think>", "Thought:", SP, "w5">>,
                       debug |-> <<>>]},
        d \in DebugTraces}

\* getErrorMessage: chosen by the substrings of err.Error().
getErrorMessage(err) ==
    <<"I encountered an error processing your request. ">> \o
    (IF err.kind = "unable to parse"
     THEN <<"The agent had trouble interpreting the tool output. Please try rephrasing your request.">>
     ELSE IF err.kind = "max iterations"
     THEN <<"The request was too complex and required too many steps to complete.">>
     ELSE IF err.kind \in {"context canceled", "context deadline exceeded"}
     THEN <<"The request timed out. Please try a simpler request.">>
     ELSE <<"Please try again or contact support if the issue persists.">>)

\* GetConversationContext: the recent messages, one labelled line each.
RECURSIVE RenderMessages(_)
RenderMessages(msgs) ==
    IF msgs = <<>> THEN <<>>
    ELSE (IF Head(msgs).Role = "user" THEN <<"Human: ">> \o Head(msgs).Content \o <<NL>>
          ELSE IF Head(msgs).Role = "assistant"
          THEN <<"Assistant: ">> \o Head(msgs).Content \o <<NL>>
          ELSE <<>>) \o RenderMessages(Tail(msgs))

GetConversationContext(sess, limit) ==
    IF GetRecentMessages(sess, limit) = <<>> THEN <<>>
    ELSE <<"Previous conversation context:", NL>>
         \o RenderMessages(GetRecentMessages(sess, limit))
         \o <<NL, "Current conversation:", NL>>

\* messageWithContext of handleChat and handleStreamChat.
MessageWithContext(sess, message) ==
    IF Len(sess.Messages) > 1
    THEN GetConversationContext(sess, ContextLimit) \o <<"Human: ">> \o message
    ELSE message

\* The result and error executeWithStreaming's inner function leaves for an
\* outcome of chains.Run: a panic recovered into an error, a parse error
\* recovered through cleanAgentResponse when the cleaned text has a final
\* answer, and otherwise replaced by the malformed-response error.
ExecuteOutcomeUnrecovered(r, out) ==
    IF out.kind \in {"answer", "panic"} THEN [result |-> Answer(r), err |-> NilErr]
    ELSE [result |-> <<>>, err |-> Err(out.kind)]
ExecuteOutcomeRetries(r, out) ==
    IF out.kind = "answer" THEN [result |-> Answer(r), err |-> NilErr]
    ELSE IF out.kind = "panic" THEN [result |-> <<>>, err |-> Err("internal error")]
    ELSE IF out.kind = "unable to parse"
    THEN LET recovered(cleaned) ==
                 IF Contains(cleaned, "Final Answer:")
                 THEN [result |-> TrimSpace(Drop(cleaned, IndexFrom(cleaned, "Final Answer:", 1))),
                       err |-> NilErr]
                 ELSE [result |-> <<>>, err |-> Err("malformed response")] IN
         recovered(cleanAgentResponse(cleanAgentResponse(out.raw)))
    ELSE [result |-> <<>>, err |-> Err(out.kind)]
ExecuteOutcome(r, out) ==
    IF out.kind = "answer" THEN [result |-> Answer(r), err |-> NilErr]
    ELSE IF out.kind = "panic" THEN [result |-> <<>>, err |-> Err("internal error")]
    ELSE IF out.kind = "unable to parse"
    THEN LET recovered(cleaned) ==
                 IF Contains(cleaned, "Final Answer:")
                 THEN [result |-> TrimSpace(Drop(cleaned, IndexFrom(cleaned, "Final Answer:", 1))),
                       err |-> NilErr]
                 ELSE [result |-> <<>>, err |-> Err("malformed response")] IN
         recovered(cleanAgentResponse(out.raw))
    ELSE [result |-> <<>>, err |-> Err(out.kind)]

IdleRun ==
    [kind |-> "none", pc |-> "idle", Message |-> <<>>, SessionID |-> "", Debug |-> FALSE,
     executionID |-> EmptyId, messageWithContext |-> <<>>, result |-> <<>>,
     err |-> NilErr, events |-> <<>>, response |-> <<>>]

\* The context of turn r exists and the turn has yet to read its state.
ContextLive(r) ==
    \/ run[r].kind = "stream" /\ run[r].pc \in {"prompt", "engine", "result"}
    \/ run[r].kind = "chat" /\ run[r].pc \in {"engine"}

\* The deadline of context.WithTimeout elapses.
Timeout(r) ==
    /\ ContextLive(r)
    /\ ctxErr[r] = "nil"
    /\ ctxErr' = [ctxErr EXCEPT ![r] = "DeadlineExceeded"]
    /\ UNCHANGED <<now, executions, triggered, stop, regLog, storeVars, runVars, obsVars>>

\* handleStreamChat and handleChat, to the session: bind the request and
\* GetOrCreateSession(req.SessionID).
BeginRequest(r, kind, req, randOk) ==
    LET g == GetOrCreateSession(heap, sessions, req.SessionID, randOk, now) IN
    /\ run[r].pc = "idle"
    /\ Len(g.heap) <= MaxSessions
    /\ heap' = g.heap
    /\ sessions' = g.sessions
    /\ held' = [held EXCEPT ![r] = g.session]
    /\ run' = [run EXCEPT ![r].kind = kind, ![r].pc = "addUser",
                          ![r].Message = req.Message, ![r].SessionID = req.SessionID,
                          ![r].Debug = req.Debug]
    /\ UNCHANGED <<now, regVars, stoppedLive, obsVars>>

\* The same for a request without the debug field.
Begin(r, kind, id, randOk) ==
    BeginRequest(r, kind, [Message |-> ReqMessage(r), SessionID |-> id, Debug |-> FALSE], randOk)

\* session.AddMessage("user", req.Message).
AddUserMessageTwice(r) ==
    /\ run[r].pc = "addUser"
    /\ heap' = [heap EXCEPT ![held[r]] =
                  AddMessage(AddMessage(@, "user", run[r].Message, now), "user", run[r].Message, now)]
    /\ run' = [run EXCEPT ![r].pc = IF run[r].kind = "stream" THEN "started" ELSE "prompt"]
    /\ UNCHANGED <<now, regVars, sessions, held, stoppedLive, obsVars>>
AddUserMessage(r) ==
    /\ run[r].pc = "addUser"
    /\ heap' = [heap EXCEPT ![held[r]] = AddMessage(@, "user", run[r].Message, now)]
    /\ run' = [run EXCEPT ![r].pc = IF run[r].kind = "stream" THEN "started" ELSE "prompt"]
    /\ UNCHANGED <<now, regVars, sessions, held, stoppedLive, obsVars>>

\* handleStreamChat: the session event, the execution id from the clock, and
\* the execution_started event.
StreamSendStartedSwapped(r, nano) ==
    /\ run[r].kind = "stream"
    /\ run[r].pc = "started"
    /\ run' = [run EXCEPT ![r].pc = "register", ![r].executionID = nano,
                          ![r].events = @ \o <<StreamMessage("execution_started", <<nano>>, FALSE),
                                               StreamMessage("session", <<heap[held[r]].ID>>, FALSE)>>]
    /\ UNCHANGED <<now, regVars, storeVars, stoppedLive, obsVars>>
StreamSendStarted(r, nano) ==
    /\ run[r].kind = "stream"
    /\ run[r].pc = "started"
    /\ run' = [run EXCEPT ![r].pc = "register", ![r].executionID = nano,
                          ![r].events = @ \o <<StreamMessage("session", <<heap[held[r]].ID>>, FALSE),
                                               StreamMessage("execution_started", <<nano>>, FALSE)>>]
    /\ UNCHANGED <<now, regVars, storeVars, stoppedLive, obsVars>>

\* handleStreamChat: context.WithTimeout and AddExecution(executionID, cancel).
StreamRegister(r) ==
    /\ run[r].kind = "stream"
    /\ run[r].pc = "register"
    /\ executions' = AddExecution(executions, run[r].executionID, r)
    /\ run' = [run EXCEPT ![r].pc = "prompt"]
    /\ UNCHANGED <<now, ctxErr, triggered, stop, regLog, storeVars, stoppedLive, obsVars>>

\* The thinking event (streaming) and messageWithContext.
BuildPrompt(r) ==
    /\ run[r].pc = "prompt"
    /\ run' = [run EXCEPT ![r].pc = "engine",
                          ![r].messageWithContext = MessageWithContext(heap[held[r]], run[r].Message),
                          ![r].events = IF run[r].kind = "stream"
                                        THEN @ \o <<StreamMessage("thinking", <<"Processing your request...">>, FALSE)>>
                                        ELSE @]
    /\ UNCHANGED <<now, regVars, storeVars, stoppedLive, obsVars>>

\* executeWithStreaming: the thinking event, chains.Run (under the executor with
\* the streaming callbacks when debug is set) with the recovery from a panic
\* and from a parse error; then an error becomes the timeout
\* error when the deadline has passed, and a result is announced.
\* messageWithContext is dead once chains.Run has taken it.
executeWithStreaming(r, out) ==
    LET o == ExecuteOutcome(r, out) IN
    /\ run[r].kind = "stream"
    /\ run[r].pc = "engine"
    /\ out \in EngineOutcomesDebug(ctxErr[r])
    /\ run' = [run EXCEPT ![r].pc = "result",
                          ![r].messageWithContext = <<>>,
                          ![r].result = o.result,
                          ![r].err = IF o.err # NilErr /\ ctxErr[r] = "DeadlineExceeded"
                                     THEN Err("request timed out") ELSE o.err,
                          ![r].events = @ \o <<ThinkingMessage(<<"Processing your request...">>, DebugMode)>>
                                          \o (IF DebugMode THEN out.debug ELSE <<>>)
                                          \o (IF o.err = NilErr
                                              THEN <<ThinkingMessage(<<"Formatting response...">>, DebugMode)>>
                                              ELSE <<>>)]
    /\ UNCHANGED <<now, regVars, storeVars, stoppedLive, obsVars>>

\* handleStreamChat on the result: "stopped" when the context was cancelled,
\* else the error message; on success the assistant message is stored and the
\* final response event sent.
StreamResultFallsThrough(r) ==
    /\ run[r].kind = "stream"
    /\ run[r].pc = "result"
    /\ heap' = [heap EXCEPT ![held[r]] = AddMessage(@, "assistant", run[r].result, now)]
    /\ run' = [run EXCEPT ![r].pc = "exit",
                 ![r].events = @ \o
                    (IF run[r].err = NilErr THEN <<>>
                     ELSE IF ctxErr[r] = "Canceled"
                     THEN <<StreamMessage("stopped", <<"Agent execution was stopped">>, FALSE)>>
                     ELSE <<StreamMessage("error", getErrorMessage(run[r].err), FALSE)>>)
                    \o <<StreamMessage("response", run[r].result, TRUE)>>]
    /\ UNCHANGED <<now, regVars, sessions, held, stoppedLive, obsVars>>
StreamResult(r) ==
    /\ run[r].kind = "stream"
    /\ run[r].pc = "result"
    /\ IF run[r].err # NilErr
       THEN /\ run' = [run EXCEPT ![r].pc = "exit",
                         ![r].events = @ \o
                            (IF ctxErr[r] = "Canceled"
                             THEN <<StreamMessage("stopped", <<"Agent execution was stopped">>, FALSE)>>
                             ELSE <<StreamMessage("error", getErrorMessage(run[r].err), FALSE)>>)]
            /\ heap' = heap
       ELSE /\ heap' = [heap EXCEPT ![held[r]] = AddMessage(@, "assistant", run[r].result, now)]
            /\ run' = [run EXCEPT ![r].pc = "exit",
                         ![r].events = @ \o <<StreamMessage("response", run[r].result, TRUE)>>]
    /\ UNCHANGED <<now, regVars, sessions, held, stoppedLive, obsVars>>

\* The same in its steps, for the order of the two on success: an error is
\* handled as above; session.AddMessage("assistant", result); and then the
\* response event.
StreamFail(r) ==
    /\ run[r].err # NilErr
    /\ StreamResult(r)

StreamStoreAnswer(r) ==
    /\ run[r].kind = "stream"
    /\ run[r].pc = "result"
    /\ run[r].err = NilErr
    /\ heap' = [heap EXCEPT ![held[r]] = AddMessage(@, "assistant", run[r].result, now)]
    /\ run' = [run EXCEPT ![r].pc = "respond"]
    /\ UNCHANGED <<now, regVars, sessions, held, stoppedLive, obsVars>>

StreamRespondFirst(r) ==
    /\ run[r].kind = "stream"
    /\ run[r].pc = "result"
    /\ run[r].err = NilErr
    /\ run' = [run EXCEPT ![r].events = @ \o <<StreamMessage("response", run[r].result, TRUE)>>]
    /\ UNCHANGED <<now, regVars, storeVars, stoppedLive, obsVars>>
StreamRespond(r) ==
    /\ run[r].kind = "stream"
    /\ run[r].pc = "respond"
    /\ run' = [run EXCEPT ![r].pc = "exit",
                          ![r].events = @ \o <<StreamMessage("response", run[r].result, TRUE)>>]
    /\ UNCHANGED <<now, regVars, storeVars, stoppedLive, obsVars>>

\* handleStreamChat's deferred function: RemoveExecution(executionID); cancel().
\* handleStreamChat's deferred function: RemoveExecution(executionID); cancel().
StreamExitKeeps(r) ==
    /\ run[r].kind = "stream"
    /\ run[r].pc = "exit"
    /\ executions' = IF run[r].err = NilErr THEN RemoveExecution(executions, run[r].executionID)
                     ELSE executions
    /\ ctxErr' = CancelFunc(ctxErr, r)
    /\ run' = [run EXCEPT ![r].pc = "done", ![r].result = <<>>, ![r].err = NilErr]
    /\ UNCHANGED <<now, triggered, stop, regLog, storeVars, stoppedLive, obsVars>>
StreamExit(r) ==
    /\ run[r].kind = "stream"
    /\ run[r].pc = "exit"
    /\ executions' = RemoveExecution(executions, run[r].executionID)
    /\ ctxErr' = CancelFunc(ctxErr, r)
    /\ run' = [run EXCEPT ![r].pc = "done", ![r].result = <<>>, ![r].err = NilErr]
    /\ UNCHANGED <<now, triggered, stop, regLog, storeVars, stoppedLive, obsVars>>

\* handleChat: chains.Run with nothing recovered; a panic leaves the handler
\* (its deferred cancel() runs) with no response written by it.
ChatEngine(r, out) ==
    /\ run[r].kind = "chat"
    /\ run[r].pc = "engine"
    /\ out \in EngineOutcomes(ctxErr[r])
    /\ IF out.kind = "panic"
       THEN /\ run' = [run EXCEPT ![r].pc = "done", ![r].messageWithContext = <<>>,
                                  ![r].err = Err("panic")]
            /\ ctxErr' = CancelFunc(ctxErr, r)
       ELSE /\ run' = [run EXCEPT ![r].pc = "result",
                         ![r].messageWithContext = <<>>,
                         ![r].result = IF out.kind = "answer" THEN Answer(r) ELSE <<>>,
                         ![r].err = IF out.kind = "answer" THEN NilErr
                                    ELSE [kind |-> out.kind, raw |-> out.raw]]
            /\ ctxErr' = ctxErr
    /\ UNCHANGED <<now, executions, triggered, stop, regLog, storeVars, stoppedLive, obsVars>>

\* handleChat on the result: the error message as the response, or the
\* assistant message stored and the answer returned; then the deferred cancel().
ChatResult(r) ==
    /\ run[r].kind = "chat"
    /\ run[r].pc = "result"
    /\ IF run[r].err # NilErr
       THEN /\ run' = [run EXCEPT ![r].pc = "done", ![r].err = NilErr,
                                  ![r].response = getErrorMessage(run[r].err)]
            /\ heap' = heap
       ELSE /\ heap' = [heap EXCEPT ![held[r]] = AddMessage(@, "assistant", run[r].result, now)]
            /\ run' = [run EXCEPT ![r].pc = "done", ![r].result = <<>>,
                                  ![r].response = run[r].result]
    /\ ctxErr' = CancelFunc(ctxErr, r)
    /\ UNCHANGED <<now, executions, triggered, stop, regLog, sessions, held, stoppedLive, obsVars>>

\* ------------------------------------------------------ handleStopExecution
\* The request is bound and checked; CancelExecution starts with its lookup.
StopLookup(k, id) ==
    /\ IF id = EmptyId
       THEN /\ stop[k].pc = "idle"
            /\ stop' = [stop EXCEPT ![k] = [IdleStop EXCEPT !.pc = "done"]]
       ELSE CancelExecutionLookup(k, id)
    /\ UNCHANGED <<now, executions, ctxErr, triggered, regLog, storeVars, runVars, obsVars>>

StopInvoke(k) ==
    /\ CancelExecutionInvoke(k)
    /\ UNCHANGED <<now, executions, regLog, storeVars, runVars, obsVars>>

\* CancelExecution removes the entry and returns true.
StopRemove(k) ==
    /\ CancelExecutionRemove(k)
    /\ stoppedLive' = IF run[stop[k].fn].pc \in {"prompt", "engine", "result"}
                      THEN stoppedLive \cup {stop[k].fn} ELSE stoppedLive
    /\ UNCHANGED <<now, ctxErr, triggered, regLog, storeVars, run, obsVars>>

\* The StopResponse is written and the handler returns.
StopRespond(k) ==
    /\ stop[k].pc = "return"
    /\ stop' = [stop EXCEPT ![k] = [IdleStop EXCEPT !.pc = "done"]]
    /\ UNCHANGED <<now, executions, ctxErr, triggered, regLog, storeVars, runVars, obsVars>>

\* ------------------------------------------- the CancelManager's test driver
\* Registry calls started so far: the completed ones and those in progress.
RegStarted == Len(regLog) + Cardinality({k \in Callers : stop[k].pc # "idle"})

\* The cancel functions the driver has registered; like a turn, it registers
\* each cancel function once.
RegAdded == {regLog[i].fn : i \in {j \in 1..Len(regLog) : regLog[j].op = "add"}}

RegAdd(id, t) ==
    /\ RegStarted < MaxOps
    /\ t \notin RegAdded
    /\ executions' = AddExecution(executions, id, t)
    /\ regLog' = Append(regLog, [op |-> "add", id |-> id, fn |-> t, ret |-> TRUE])
    /\ UNCHANGED <<now, storeVars, runVars, ctxErr, triggered, stop, obsVars>>

RegRemove(id) ==
    /\ RegStarted < MaxOps
    /\ executions' = RemoveExecution(executions, id)
    /\ regLog' = Append(regLog, [op |-> "remove", id |-> id, fn |-> NoHandle, ret |-> TRUE])
    /\ UNCHANGED <<now, storeVars, runVars, ctxErr, triggered, stop, obsVars>>

RegCancelLookup(k, id) ==
    /\ RegStarted < MaxOps
    /\ CancelExecutionLookup(k, id)
    /\ UNCHANGED <<now, storeVars, runVars, executions, ctxErr, triggered, regLog, obsVars>>

RegCancelInvoke(k) ==
    /\ CancelExecutionInvoke(k)
    /\ UNCHANGED <<now, storeVars, runVars, executions, regLog, obsVars>>

RegCancelRemove(k) ==
    /\ CancelExecutionRemove(k)
    /\ UNCHANGED <<now, storeVars, runVars, ctxErr, triggered, regLog, obsVars>>

\* CancelExecution returns to the driver, which notes the result.
RegCancelReturn(k) ==
    /\ stop[k].pc = "return"
    /\ regLog' = Append(regLog, [op |-> "cancel", id |-> stop[k].id,
                                 fn |-> stop[k].fn, ret |-> stop[k].ret])
    /\ stop' = [stop EXCEPT ![k] = IdleStop]
    /\ UNCHANGED <<now, storeVars, runVars, executions, ctxErr, triggered, obsVars>>

\* ------------------------------------------------------------ the locks
\* The locking of the operations, with everything else left out: each
\* operation is the sequence of its Lock, Unlock, RLock and RUnlock calls
\* and of the calls it makes that can block (the reasoning engine with its
\* tools) or that run foreign code (a cancel function).
SessionMutexes == {"session 1", "session 2"}
Mutexes == {"store", "registry"} \cup SessionMutexes

\* Two request goroutines and the cleanup goroutine of the store.
Goroutines == {"g1", "g2", "cleanup"}

\* A sync.RWMutex: its writer, its readers, and the goroutines blocked in
\* Lock (while there is one, RLock blocks too).
FreeMutex == [w |-> "none", r |-> {}, pending |-> {}]

\* held: the mutexes the goroutine holds, in the order it took them.
IdleGoroutine == [op |-> "idle", s |-> "none", pc |-> 0, held |-> <<>>]

L(act, m) == [act |-> act, on |-> m]

\* A method whose body runs between m.Lock() and the deferred m.Unlock(),
\* or between m.RLock() and m.RUnlock(), and makes no call that locks.
Locked(m) == <<L("Lock", m), L("Unlock", m)>>
RLocked(m) == <<L("RLock", m), L("RUnlock", m)>>

\* GetSessionStats: under the store's read lock, each session's read lock
\* in turn.
GetSessionStatsSessionFirst ==
    <<L("RLock", "session 1"), L("RLock", "store"), L("RUnlock", "store"), L("RUnlock", "session 1"),
      L("RLock", "session 2"), L("RUnlock", "session 2")>>
GetSessionStatsLocks ==
    <<L("RLock", "store"), L("RLock", "session 1"), L("RUnlock", "session 1"),
      L("RLock", "session 2"), L("RUnlock", "session 2"), L("RUnlock", "store")>>

\* CancelExecution: the lookup under the read lock, cancel() with no lock,
\* then RemoveExecution.
CancelExecutionHoldsLock ==
    <<L("RLock", "registry"), L("call", "cancel"), L("RUnlock", "registry")>> \o Locked("registry")
CancelExecutionLocks ==
    <<L("RLock", "registry"), L("RUnlock", "registry"), L("call", "cancel")>> \o Locked("registry")

\* The operations a request goroutine runs, on session s where they have one.
LockOps ==
    {"handleStreamChat", "handleChat", "handleGetSession", "handleClearSession",
     "DeleteSession", "GetAllSessions", "GetSessionStats", "CancelExecution",
     "GetActiveExecutions"}

\* handleStreamChat: GetOrCreateSession, AddMessage, AddExecution,
\* GetConversationContext, the engine, AddMessage, and the deferred
\* RemoveExecution; handleChat the same without the registry; handleGetSession
\* and handleClearSession: GetSession, then the session under its own mutex.
LockProgram(op, s) ==
    CASE op = "handleStreamChat" ->
            Locked("store") \o Locked(s) \o Locked("registry") \o RLocked(s)
            \o <<L("call", "engine")>> \o Locked(s) \o Locked("registry")
      [] op = "handleChat" ->
            Locked("store") \o Locked(s) \o RLocked(s) \o <<L("call", "engine")>> \o Locked(s)
      [] op = "handleGetSession" -> RLocked("store") \o RLocked(s)
      [] op = "handleClearSession" -> RLocked("store") \o Locked(s)
      [] op = "DeleteSession" -> Locked("store")
      [] op = "GetAllSessions" -> RLocked("store")
      [] op = "GetSessionStats" -> GetSessionStatsLocks
      [] op = "CancelExecution" -> CancelExecutionLocks
      [] op = "GetActiveExecutions" -> RLocked("registry")
      [] op = "cleanupExpiredSessions" -> Locked("store")

\* The call the goroutine is at, and whether it is inside one of its own.
AtStep(g) == LockProgram(goroutine[g].op, goroutine[g].s)[goroutine[g].pc]
Running(g) == goroutine[g].op # "idle"
Holds(g, m) == mutex[m].w = g \/ g \in mutex[m].r

\* The goroutine after its current call: at the next one, or done.
Advance(g, locks) ==
    IF goroutine[g].pc = Len(LockProgram(goroutine[g].op, goroutine[g].s))
    THEN IdleGoroutine
    ELSE [goroutine[g] EXCEPT !.pc = @ + 1, !.held = locks]

Without(locks, m) == SelectSeq(locks, LAMBDA x : x # m)

\* A request arrives, or the cleanup ticker fires.
StartOp(g, op, s) ==
    /\ ~Running(g)
    /\ IF g = "cleanup" THEN op = "cleanupExpiredSessions" ELSE op \in LockOps
    /\ goroutine' = [goroutine EXCEPT ![g] = [op |-> op, s |-> s, pc |-> 1, held |-> <<>>]]
    /\ UNCHANGED <<now, regVars, storeVars, runVars, lastCycle, listed, cleanLog, handler, sent, mutex, timeNow>>

\* Lock is called: from now on new readers wait.
LockCalled(g) ==
    /\ Running(g)
    /\ AtStep(g).act = "Lock"
    /\ g \notin mutex[AtStep(g).on].pending
    /\ mutex' = [mutex EXCEPT ![AtStep(g).on].pending = @ \cup {g}]
    /\ UNCHANGED <<now, regVars, storeVars, runVars, lastCycle, listed, cleanLog, handler, sent, goroutine, timeNow>>

\* Lock returns: no writer and no reader is left.
LockReturns(g) ==
    /\ Running(g)
    /\ AtStep(g).act = "Lock"
    /\ g \in mutex[AtStep(g).on].pending
    /\ mutex[AtStep(g).on].w = "none"
    /\ mutex[AtStep(g).on].r = {}
    /\ mutex' = [mutex EXCEPT ![AtStep(g).on].pending = @ \ {g}, ![AtStep(g).on].w = g]
    /\ goroutine' = [goroutine EXCEPT ![g] = Advance(g, Append(goroutine[g].held, AtStep(g).on))]
    /\ UNCHANGED <<now, regVars, storeVars, runVars, lastCycle, listed, cleanLog, handler, sent, timeNow>>

\* RLock returns: no writer holds the mutex and none is blocked in Lock.
RLockReturns(g) ==
    /\ Running(g)
    /\ AtStep(g).act = "RLock"
    /\ mutex[AtStep(g).on].w = "none"
    /\ mutex[AtStep(g).on].pending = {}
    /\ mutex' = [mutex EXCEPT ![AtStep(g).on].r = @ \cup {g}]
    /\ goroutine' = [goroutine EXCEPT ![g] = Advance(g, Append(goroutine[g].held, AtStep(g).on))]
    /\ UNCHANGED <<now, regVars, storeVars, runVars, lastCycle, listed, cleanLog, handler, sent, timeNow>>

\* Unlock and RUnlock.
UnlockCalled(g) ==
    /\ Running(g)
    /\ AtStep(g).act \in {"Unlock", "RUnlock"}
    /\ mutex' = [mutex EXCEPT ![AtStep(g).on].w = IF AtStep(g).act = "Unlock" THEN "none" ELSE @,
                              ![AtStep(g).on].r = IF AtStep(g).act = "RUnlock" THEN @ \ {g} ELSE @]
    /\ goroutine' = [goroutine EXCEPT ![g] = Advance(g, Without(goroutine[g].held, AtStep(g).on))]
    /\ UNCHANGED <<now, regVars, storeVars, runVars, lastCycle, listed, cleanLog, handler, sent, timeNow>>

\* The reasoning engine, or the cancel function, returns.
CallReturns(g) ==
    /\ Running(g)
    /\ AtStep(g).act = "call"
    /\ goroutine' = [goroutine EXCEPT ![g] = Advance(g, goroutine[g].held)]
    /\ UNCHANGED <<now, regVars, storeVars, runVars, lastCycle, listed, cleanLog, handler, sent, mutex, timeNow>>

\* ---------------------------------------------------------------- Init
Init ==
    /\ now = 0
    /\ executions = NewCancelManager
    /\ ctxErr = [r \in Runs |-> "nil"]
    /\ triggered = [r \in Runs |-> 0]
    /\ stop = [k \in Callers |-> IdleStop]
    /\ regLog = <<>>
    /\ heap = <<>>
    /\ sessions = <<>>
    /\ held = [r \in Runs |-> NoSession]
    /\ run = [r \in Runs |-> IdleRun]
    /\ stoppedLive = {}
    /\ lastCycle = NoCycle
    /\ listed = [c \in Runs |-> NoList]
    /\ cleanLog = <<>>
    /\ handler = NewStreamingCallbackHandler
    /\ sent = <<>>
    /\ mutex = [l \in Mutexes |-> FreeMutex]
    /\ goroutine = [g \in Goroutines |-> IdleGoroutine]
    /\ timeNow = [c \in Runs |-> NoRead]

vars == <<now, regVars, storeVars, runVars, obsVars>>

\* ------------------------------------------------------------ SpecReg
\* Concurrent callers: the critical sections of the calls interleave freely.
NextReg ==
    \/ \E id \in ExecIds, t \in Runs : RegAdd(id, t)
    \/ \E id \in ExecIds : RegRemove(id)
    \/ \E k \in Callers, id \in ExecIds : RegCancelLookup(k, id)
    \/ \E k \in Callers : RegCancelInvoke(k)
    \/ \E k \in Callers : RegCancelRemove(k)
    \/ \E k \in Callers : RegCancelReturn(k)

SpecReg == Init /\ [][NextReg]_vars

\* One client: a call starts only when no other call is in progress.
NoCallInProgress == \A k \in Callers : stop[k].pc = "idle"

NextRegSeq ==
    \/ \E id \in ExecIds, t \in Runs : NoCallInProgress /\ RegAdd(id, t)
    \/ \E id \in ExecIds : NoCallInProgress /\ RegRemove(id)
    \/ \E k \in Callers, id \in ExecIds : NoCallInProgress /\ RegCancelLookup(k, id)
    \/ \E k \in Callers : RegCancelInvoke(k)
    \/ \E k \in Callers : RegCancelRemove(k)
    \/ \E k \in Callers : RegCancelReturn(k)

SpecRegSeq == Init /\ [][NextRegSeq]_vars

\* ---------------------------------------------------------- SpecStore
\* Clients call the store and the sessions they hold; every call is one
\* critical section. (The cleanup goroutine is in SpecEvict.)
NextStore ==
    \/ \E c \in Runs, id \in SessionIdInputs, randOk \in BOOLEAN : StoreGetOrCreate(c, id, randOk)
    \/ \E c \in Runs, id \in SessionIdInputs : StoreGet(c, id)
    \/ \E id \in SessionIdInputs : StoreDelete(id)
    \/ \E c \in Runs, in \in AppendInputs : StoreAddMessage(c, in)
    \/ \E c \in Runs : StoreClearMessages(c)

SpecStore == Init /\ [][NextStore]_vars

\* ---------------------------------------------------------- SpecEvict
\* The cleanup goroutine against clients that look sessions up and append to
\* them, a call of AddMessage taking two steps within one tick of the clock;
\* nothing else removes a session here.
NextEvict ==
    \/ \E c \in Runs, id \in SessionIdInputs, randOk \in BOOLEAN :
           ~InAppend(c) /\ StoreGetOrCreate(c, id, randOk)
    \/ \E c \in Runs, id \in SessionIdInputs : ~InAppend(c) /\ StoreGet(c, id)
    \/ \E c \in Runs : \E in \in {<<"user", ReqMessage(c)>>} : StoreAppendBegin(c, in)
    \/ \E c \in Runs : StoreAppendEnd(c)
    \/ Cleanup
    \/ (\A c \in Runs : ~InAppend(c)) /\ Tick

SpecEvict == Init /\ [][NextEvict]_vars

\* ----------------------------------------------------------- SpecList
\* One client lists the sessions, once, while another creates sessions, appends
\* to them, clears and deletes them, and the cleanup goroutine runs.
Writers == {"r1"}
Listers == {"r2"}

NextList ==
    \/ \E c \in Writers, id \in SessionIdInputs : StoreGetOrCreate(c, id, TRUE)
    \/ \E c \in Writers : \E in \in {<<"user", ReqMessage(c)>>} : StoreAddMessage(c, in)
    \/ \E c \in Writers : StoreClearMessages(c)
    \/ \E id \in SessionIdInputs : StoreDelete(id)
    \/ \E c \in Listers : ~listed[c].called /\ StoreList(c)
    \/ Cleanup
    \/ Tick

SpecList == Init /\ [][NextList]_vars

\* ---------------------------------------------------------------- Spec
\* Turns on both endpoints, one stop request and deadlines, within one tick of
\* the monotonic clock and with crypto/rand delivering the session ids.
StopCallers == {"k1"}
\* The session ids a turn's request carries: none, or one a session was
\* created under.
TurnSessionIds == {""} \cup KnownIds
\* The execution ids a stop request carries: none, or one an
\* execution_started event has announced.
AnnouncedIds == {run[r].executionID : r \in {x \in Runs : run[x].executionID # EmptyId}}

Next ==
    \/ \E r \in Runs, kind \in {"stream", "chat"}, id \in TurnSessionIds :
           Begin(r, kind, id, TRUE)
    \/ \E r \in Runs : AddUserMessage(r)
    \/ \E r \in Runs, nano \in ExecIds : StreamSendStarted(r, nano)
    \/ \E r \in Runs : StreamRegister(r)
    \/ \E r \in Runs : BuildPrompt(r)
    \/ \E r \in Runs : \E out \in EngineOutcomes(ctxErr[r]) : executeWithStreaming(r, out)
    \/ \E r \in Runs : StreamResult(r)
    \/ \E r \in Runs : StreamExit(r)
    \/ \E r \in Runs : \E out \in EngineOutcomes(ctxErr[r]) : ChatEngine(r, out)
    \/ \E r \in Runs : ChatResult(r)
    \/ \E r \in Runs : Timeout(r)
    \/ \E k \in StopCallers, id \in AnnouncedIds \cup {EmptyId} : StopLookup(k, id)
    \/ \E k \in StopCallers : StopInvoke(k)
    \/ \E k \in StopCallers : StopRemove(k)
    \/ \E k \in StopCallers : StopRespond(k)

Spec == Init /\ [][Next]_vars

\* ---------------------------------------------------------- SpecTurn
\* One turn on either endpoint, with DebugMode on, an id of the client's
\* choice or none, crypto/rand delivering or failing, one stop request and
\* the deadline.
TurnRuns == {"r1"}

NextTurn ==
    \/ \E r \in TurnRuns, kind \in {"stream", "chat"}, id \in {""} \cup ClientIds,
          debug \in BOOLEAN, randOk \in BOOLEAN :
              BeginRequest(r, kind, [Message |-> ReqMessage(r), SessionID |-> id, Debug |-> debug], randOk)
    \/ \E r \in TurnRuns : AddUserMessage(r)
    \/ \E r \in TurnRuns, nano \in ExecIds : StreamSendStarted(r, nano)
    \/ \E r \in TurnRuns : StreamRegister(r)
    \/ \E r \in TurnRuns : BuildPrompt(r)
    \/ \E r \in TurnRuns : \E out \in EngineOutcomesDebug(ctxErr[r]) : executeWithStreaming(r, out)
    \/ \E r \in TurnRuns : StreamResult(r)
    \/ \E r \in TurnRuns : StreamExit(r)
    \/ \E r \in TurnRuns : \E out \in EngineOutcomes(ctxErr[r]) : ChatEngine(r, out)
    \/ \E r \in TurnRuns : ChatResult(r)
    \/ \E r \in TurnRuns : Timeout(r)
    \/ \E k \in StopCallers, id \in AnnouncedIds \cup {EmptyId} : StopLookup(k, id)
    \/ \E k \in StopCallers : StopInvoke(k)
    \/ \E k \in StopCallers : StopRemove(k)
    \/ \E k \in StopCallers : StopRespond(k)

SpecTurn == Init /\ [][NextTurn]_vars

\* --------------------------------------------------------- SpecClean
\* cleanAgentResponse on every response of the bounds below, and again on
\* what it returned: the CleaningLLMWrapper cleans each text of the model, and
\* executeWithStreaming cleans the text the parser rejected once more.
MaxLen == 3
MaxTagLen == 5
MaxPasses == 3

\* The tokens of the responses up to MaxLen, and those of the longer
\* responses made of tags.
Tokens ==
    {NL, SP, "x", "w5", "w50", "w60", "i don't", "I Don't", "Thought:", "Action:", "Action Input:",
     "Final Answer:", "Observation:", "<think>", "</think>", "<reasoning>",
     "</reasoning>", "<thi", "nk>"}
TagTokens == {NL, "w60", "Thought:", "<think>", "</think>", "<reasoning>", "</reasoning>", "<thi", "nk>"}

TextsOver(toks, n) == UNION {[1..k -> toks] : k \in 0..n}

\* The responses: the strings written with up to n tokens, or with up to k
\* of the tokens of tags.
Responses(n, k) == {t \in TextsOver(Tokens, n) \cup TextsOver(TagTokens, k) : JoinTags(t) = t}

InitClean ==
    /\ now = 0
    /\ executions = NewCancelManager
    /\ ctxErr = [r \in Runs |-> "nil"]
    /\ triggered = [r \in Runs |-> 0]
    /\ stop = [k \in Callers |-> IdleStop]
    /\ regLog = <<>>
    /\ heap = <<>>
    /\ sessions = <<>>
    /\ held = [r \in Runs |-> NoSession]
    /\ run = [r \in Runs |-> IdleRun]
    /\ stoppedLive = {}
    /\ lastCycle = NoCycle
    /\ listed = [c \in Runs |-> NoList]
    /\ cleanLog \in {<<t>> : t \in Responses(MaxLen, MaxTagLen)}
    /\ handler = NewStreamingCallbackHandler
    /\ sent = <<>>
    /\ mutex = [l \in Mutexes |-> FreeMutex]
    /\ goroutine = [g \in Goroutines |-> IdleGoroutine]
    /\ timeNow = [c \in Runs |-> NoRead]

\* CleanAgentResponse(response) on the latest text.
CleanAgentResponse ==
    /\ Len(cleanLog) <= MaxPasses
    /\ cleanLog' = Append(cleanLog, cleanAgentResponse(cleanLog[Len(cleanLog)]))
    /\ UNCHANGED <<now, regVars, storeVars, runVars, lastCycle, listed, handler, sent, lockVars, timeNow>>

NextClean == CleanAgentResponse

SpecClean == InitClean /\ [][NextClean]_vars

\* --------------------------------------------------------- SpecTrace
\* The StreamingCallbackHandler of one run, from its construction, called by
\* the executor in any order of its methods, until it has sent MaxCallbacks
\* events.
MaxCallbacks == 3

\* One callback: the embedded handler's method, h.step++, and the debug event
\* passed to streamFunc.
HandleCallback(cb) ==
    /\ Len(sent) < MaxCallbacks
    /\ handler' = StreamingCallback(handler, cb)
    /\ sent' = Append(sent, DebugMessage(handler', cb))
    /\ UNCHANGED <<now, regVars, storeVars, runVars, lastCycle, listed, cleanLog, lockVars, timeNow>>

NextTrace == \E cb \in CallbackInputs : HandleCallback(cb)

SpecTrace == Init /\ [][NextTrace]_vars

\* ---------------------------------------------------------- SpecLock
\* Two request goroutines and the cleanup goroutine, each in any operation,
\* interleaved call by call.
NextLock ==
    \/ \E g \in Goroutines, op \in LockOps \cup {"cleanupExpiredSessions"}, s \in SessionMutexes :
          StartOp(g, op, s)
    \/ \E g \in Goroutines : LockCalled(g)
    \/ \E g \in Goroutines : LockReturns(g)
    \/ \E g \in Goroutines : RLockReturns(g)
    \/ \E g \in Goroutines : UnlockCalled(g)
    \/ \E g \in Goroutines : CallReturns(g)

SpecLock == Init /\ [][NextLock]_vars

\* --------------------------------------------------------- SpecTouch
\* Two clients of one session: it is created, and then they look it up,
\* append to it and clear it, each refresh of Updated in its two steps, while
\* time passes.
NextTouch ==
    \/ \E c \in Runs : heap = <<>> /\ StoreGetOrCreate(c, "", TRUE)
    \/ \E c \in Runs, op \in RefreshOps, id \in KnownIds : RefreshBegin(c, op, id)
    \/ \E c \in Runs : RefreshEnd(c)
    \/ Tick

SpecTouch == Init /\ [][NextTouch]_vars

\* --------------------------------------------------------- SpecCrash
\* Two streaming turns side by side, on sessions of their own or a shared
\* one, with every outcome of the engine, a panic among them.
NextCrash ==
    \/ \E r \in Runs, id \in TurnSessionIds : Begin(r, "stream", id, TRUE)
    \/ \E r \in Runs : AddUserMessage(r)
    \/ \E r \in Runs, nano \in ExecIds : StreamSendStarted(r, nano)
    \/ \E r \in Runs : StreamRegister(r)
    \/ \E r \in Runs : BuildPrompt(r)
    \/ \E r \in Runs : \E out \in EngineOutcomes(ctxErr[r]) : executeWithStreaming(r, out)
    \/ \E r \in Runs : StreamResult(r)
    \/ \E r \in Runs : StreamExit(r)

SpecCrash == Init /\ [][NextCrash]_vars

\* ---------------------------------------------------------- SpecLive
\* Two streaming turns, one stop request and the deadlines, with the
\* scheduling the runtime gives: a goroutine that can take its next step
\* takes it, and the timer of context.WithTimeout fires. chains.Run is handed
\* ctx; it may return at any time, and it is taken to return once ctx is
\* done.
ContextDoneBackground(r) == FALSE
ContextDone(r) == ctxErr[r] # "nil"

\* The ways chains.Run returns that differ in what the handler does next: an
\* answer, a panic (recovered into an error), and the context's error.
LiveOutcomes(cerr) ==
    {out \in EngineOutcomes(cerr) :
        out.kind \in {"answer", "panic", "context canceled", "context deadline exceeded"}}

NextLive ==
    \/ \E r \in Runs : Begin(r, "stream", "", TRUE)
    \/ \E r \in Runs : AddUserMessage(r)
    \/ \E r \in Runs, nano \in ExecIds : StreamSendStarted(r, nano)
    \/ \E r \in Runs : StreamRegister(r)
    \/ \E r \in Runs : BuildPrompt(r)
    \/ \E r \in Runs : \E out \in LiveOutcomes(ctxErr[r]) : executeWithStreaming(r, out)
    \/ \E r \in Runs : StreamResult(r)
    \/ \E r \in Runs : StreamExit(r)
    \/ \E r \in Runs : Timeout(r)
    \/ \E k \in StopCallers, id \in AnnouncedIds : StopLookup(k, id)
    \/ \E k \in StopCallers : StopInvoke(k)
    \/ \E k \in StopCallers : StopRemove(k)
    \/ \E k \in StopCallers : StopRespond(k)

\* The handler's own steps, the timer, the steps of a stop request once it
\* has arrived, and the engine's return once its context is done.
FairLive ==
    /\ \A r \in Runs :
          /\ WF_vars(AddUserMessage(r))
          /\ WF_vars(\E nano \in ExecIds : StreamSendStarted(r, nano))
          /\ WF_vars(StreamRegister(r))
          /\ WF_vars(BuildPrompt(r))
          /\ WF_vars(ContextDone(r) /\ \E out \in LiveOutcomes(ctxErr[r]) : executeWithStreaming(r, out))
          /\ WF_vars(StreamResult(r))
          /\ WF_vars(StreamExit(r))
          /\ WF_vars(Timeout(r))
    /\ \A k \in StopCallers :
          /\ WF_vars(StopInvoke(k))
          /\ WF_vars(StopRemove(k))
          /\ WF_vars(StopRespond(k))

SpecLive == Init /\ [][NextLive]_vars /\ FairLive

\* ---------------------------------------------------------- SpecClear
\* Streaming turns and a client that clears sessions: handleClearSession is
\* GetSession(id) and then ClearMessages on the session it returned.
NextClear ==
    \/ \E r \in Runs, id \in TurnSessionIds : Begin(r, "stream", id, TRUE)
    \/ \E r \in Runs : AddUserMessage(r)
    \/ \E r \in Runs, nano \in ExecIds : StreamSendStarted(r, nano)
    \/ \E r \in Runs : StreamRegister(r)
    \/ \E r \in Runs : BuildPrompt(r)
    \/ \E r \in Runs : \E out \in LiveOutcomes(ctxErr[r]) : executeWithStreaming(r, out)
    \/ \E r \in Runs : StreamResult(r)
    \/ \E r \in Runs : StreamExit(r)
    \/ \E c \in Runs, id \in KnownIds : run[c].pc = "idle" /\ StoreGet(c, id)
    \/ \E c \in Runs : run[c].pc = "idle" /\ StoreClearMessages(c)

SpecClear == Init /\ [][NextClear]_vars

\* --------------------------------------------------------- SpecAnswer
\* Two streaming turns, on sessions of their own or a shared one, with one
\* stop request and the deadlines, the handling of a result in its steps.
NextAnswer ==
    \/ \E r \in Runs, id \in TurnSessionIds : Begin(r, "stream", id, TRUE)
    \/ \E r \in Runs : AddUserMessage(r)
    \/ \E r \in Runs, nano \in ExecIds : StreamSendStarted(r, nano)
    \/ \E r \in Runs : StreamRegister(r)
    \/ \E r \in Runs : BuildPrompt(r)
    \/ \E r \in Runs : \E out \in LiveOutcomes(ctxErr[r]) : executeWithStreaming(r, out)
    \/ \E r \in Runs : StreamFail(r)
    \/ \E r \in Runs : StreamStoreAnswer(r)
    \/ \E r \in Runs : StreamRespond(r)
    \/ \E r \in Runs : StreamExit(r)
    \/ \E r \in Runs : Timeout(r)
    \/ \E k \in StopCallers, id \in AnnouncedIds : StopLookup(k, id)
    \/ \E k \in StopCallers : StopInvoke(k)
    \/ \E k \in StopCallers : StopRemove(k)
    \/ \E k \in StopCallers : StopRespond(k)

SpecAnswer == Init /\ [][NextAnswer]_vars

\* ------------------------------------------------ claims on the registry
\* The handle the driver's completed calls 1..n leave under id, read off the
\* log alone: the last add, unless a remove or a cancel that returned true
\* came after it.
RECURSIVE LoggedHandle(_, _)
LoggedHandle(n, id) ==
    IF n = 0 THEN NoHandle
    ELSE LET e == regLog[n] IN
         IF e.id # id THEN LoggedHandle(n - 1, id)
         ELSE IF e.op = "add" THEN e.fn
         ELSE IF e.op = "remove" \/ e.ret THEN NoHandle
         ELSE LoggedHandle(n - 1, id)

\* Calls i and i+1 of the driver are both CancelExecution(id).
CancelTwice(i) ==
    /\ i \in 1..(Len(regLog) - 1)
    /\ regLog[i].op = "cancel"
    /\ regLog[i + 1].op = "cancel"
    /\ regLog[i].id = regLog[i + 1].id

\* C2: two CancelExecution(id) calls in sequence return (true, false) when id
\* was registered and (false, false) when it was not, and the registered
\* cancel function is invoked once over the two calls (never when id was not
\* registered).
C2_CancelTwiceTrueThenFalse ==
    \A i \in 1..Len(regLog) :
        CancelTwice(i) =>
            LET h == LoggedHandle(i - 1, regLog[i].id) IN
            /\ regLog[i].ret = (h # NoHandle)
            /\ regLog[i + 1].ret = FALSE
            /\ regLog[i].fn = h
            /\ regLog[i + 1].fn = NoHandle
            /\ h # NoHandle => triggered[h] = 1

C2_Witness ==
    \E i \in 1..Len(regLog) :
        /\ CancelTwice(i)
        /\ regLog[i].ret
        /\ ~regLog[i + 1].ret
        /\ triggered[regLog[i].fn] = 1

\* C3 as claimed: however concurrent CancelExecution calls on a registered id
\* interleave, the registered cancel function is invoked once and one call
\* returns true.
TrueCancelsOf(t) ==
    {i \in 1..Len(regLog) : regLog[i].op = "cancel" /\ regLog[i].ret /\ regLog[i].fn = t}

C3_TriggerOnceUnderConcurrency ==
    \A t \in Runs :
        /\ triggered[t] <= 1
        /\ Cardinality(TrueCancelsOf(t)) <= 1

\* C7: after the handle under id was removed or cancelled, AddExecution(id, t)
\* with a new cancel function t takes effect: the next CancelExecution(id)
\* returns true and invokes t, and t only.
ReusedThenCancelled(j) ==
    /\ j \in 2..(Len(regLog) - 1)
    /\ regLog[j].op = "add"
    /\ regLog[j - 1].id = regLog[j].id
    /\ regLog[j - 1].op = "remove" \/ (regLog[j - 1].op = "cancel" /\ regLog[j - 1].ret)
    /\ LoggedHandle(j - 2, regLog[j].id) # NoHandle
    /\ regLog[j + 1].op = "cancel"
    /\ regLog[j + 1].id = regLog[j].id

C7_IdentifierReuse ==
    \A j \in 1..Len(regLog) :
        ReusedThenCancelled(j) =>
            LET old == LoggedHandle(j - 2, regLog[j].id) IN
            /\ regLog[j + 1].ret
            /\ regLog[j + 1].fn = regLog[j].fn
            /\ regLog[j].fn # old
            /\ triggered[regLog[j].fn] = 1
            /\ triggered[old] = IF regLog[j - 1].op = "cancel" THEN 1 ELSE 0

C7_Witness ==
    \E j \in 1..Len(regLog) :
        /\ ReusedThenCancelled(j)
        /\ regLog[j - 1].op = "remove"
        /\ regLog[j + 1].ret
        /\ triggered[regLog[j].fn] = 1

\* ------------------------------------------------- claims on the store
\* C9: however getOrCreate, append, delete, clear and the cleanup interleave,
\* a step leaves a session's messages as they were, or extends them at the
\* end by the one message an AddMessage call was given, or (a ClearMessages
\* call on that session) empties them.
C9_AppendOrder ==
    [][\A p \in 1..Len(heap) :
         LET old == heap[p].Messages
             new == heap'[p].Messages IN
         \/ new = old
         \/ /\ Len(new) = Len(old) + 1
            /\ SubSeq(new, 1, Len(old)) = old
            /\ \E c \in Runs, in \in AppendInputs :
                   /\ held[c] = p
                   /\ StoreAddMessage(c, in)
                   /\ new[Len(new)] = ChatMessage(in[1], in[2])
         \/ /\ new = <<>>
            /\ \E c \in Runs : held[c] = p /\ StoreClearMessages(c)]_vars

C9_Witness ==
    /\ Len(heap) = 2
    /\ \A p \in 1..2 : Len(heap[p].Messages) = 2
    /\ heap[1].Messages[1] # heap[1].Messages[2]
    /\ sessions = <<>>

\* ---------------------------------------------- claims on the eviction
\* The session stored under id was last active more than max-age ago.
Stale(id) == now - heap[sessions[id]].Updated > SessionMaxAge

\* Session p was last active more than max-age before the latest cycle.
StaleAtCycle(p) == lastCycle # NoCycle /\ lastCycle - heap[p].Updated > SessionMaxAge

\* C11: once a cleanup cycle has run, a session whose last activity was more
\* than max-age before that cycle is out of the store: GetAllSessions does
\* not return it and GetSession with its id does not find it.
C11_StaleAbsentAfterCycle ==
    \A p \in 1..Len(heap) :
        StaleAtCycle(p) =>
            /\ p \notin GetAllSessions(sessions)
            /\ GetSession(heap, sessions, heap[p].ID, now).session # p
            /\ \/ ~GetSession(heap, sessions, heap[p].ID, now).exists
               \/ ~StaleAtCycle(GetSession(heap, sessions, heap[p].ID, now).session)

\* A cycle has evicted the first session and kept the second.
C11_Witness ==
    /\ Len(heap) = 2
    /\ StaleAtCycle(1)
    /\ heap[1].ID \notin DOMAIN sessions
    /\ heap[2].ID \in DOMAIN sessions

\* C12: a cleanup cycle evicts no session that a lookup or an append touched
\* within max-age of the cycle, an append in progress during the cycle
\* counting as a touch.
C12_TouchedNeverEvicted ==
    [][Cleanup =>
         \A id \in DOMAIN sessions :
             (~Stale(id) \/ heap[sessions[id]].mutex # "free") =>
                 id \in DOMAIN sessions']_vars

\* C13: every session was created under a generated identifier: a call of
\* GetOrCreateSession with an empty or an unknown id never stores the new
\* session under the id the caller sent.
C13_FreshIdentifier ==
    \A p \in 1..Len(heap) :
        heap[p].ID \in {RandIds[i] : i \in DOMAIN RandIds} \cup {TimeIds[i] : i \in DOMAIN TimeIds}

\* C14: the map never holds two sessions for one id (each stored session is
\* under its own ID, once), and GetOrCreateSession with a stored id returns
\* the stored session to every caller, refreshes its Updated and changes
\* neither its messages, nor the map, nor any other session.
C14_GetOrCreateExisting ==
    /\ [](\A id \in DOMAIN sessions :
            /\ heap[sessions[id]].ID = id
            /\ \A other \in DOMAIN sessions : sessions[other] = sessions[id] => other = id)
    /\ [][\A c \in Runs, id \in DOMAIN sessions, randOk \in BOOLEAN :
             StoreGetOrCreate(c, id, randOk) =>
                 /\ held'[c] = sessions[id]
                 /\ sessions' = sessions
                 /\ Len(heap') = Len(heap)
                 /\ heap'[sessions[id]] = [heap[sessions[id]] EXCEPT !.Updated = now]
                 /\ \A p \in 1..Len(heap) : p # sessions[id] => heap'[p] = heap[p]]_vars

\* Both clients hold the one session stored under an id; it has a message
\* and was refreshed after its creation.
C14_Witness ==
    /\ held["r1"] # NoSession
    /\ held["r1"] = held["r2"]
    /\ heap[held["r1"]].ID \in DOMAIN sessions
    /\ sessions[heap[held["r1"]].ID] = held["r1"]
    /\ Len(heap[held["r1"]].Messages) > 0
    /\ heap[held["r1"]].Updated > heap[held["r1"]].Created

\* C15: GetSession and DeleteSession with an id that is not stored report
\* that and change nothing in the store (GetSession creates no session);
\* DeleteSession with a stored id reports it found, removes that id only, and
\* GetSession with that id then reports that it does not exist.
C15_GetAndDelete ==
    [][/\ \A c \in Runs, id \in SessionIdInputs \ {""} :
            (StoreGet(c, id) /\ id \notin DOMAIN sessions) =>
                /\ ~GetSession(heap, sessions, id, now).exists
                /\ held'[c] = NoSession
                /\ heap' = heap
                /\ sessions' = sessions
       /\ \A id \in SessionIdInputs \ {""} :
            StoreDelete(id) =>
                IF id \in DOMAIN sessions
                THEN /\ DeleteSessionExists(sessions, id)
                     /\ DOMAIN sessions' = DOMAIN sessions \ {id}
                     /\ \A other \in DOMAIN sessions' : sessions'[other] = sessions[other]
                     /\ heap' = heap
                     /\ ~GetSession(heap', sessions', id, now').exists
                     /\ GetSession(heap', sessions', id, now').session = NoSession
                ELSE /\ ~DeleteSessionExists(sessions, id)
                     /\ sessions' = sessions
                     /\ heap' = heap]_vars

\* A stored session with a message has been deleted, another is still
\* stored, and a client's lookup has found nothing.
C15_Witness ==
    /\ Len(heap) = 2
    /\ heap[1].ID \notin DOMAIN sessions
    /\ Len(heap[1].Messages) > 0
    /\ heap[2].ID \in DOMAIN sessions
    /\ held["r1"] = NoSession
    /\ held["r2"] = 2

\* C16: what a client got from GetAllSessions keeps showing the sessions and
\* messages it showed when it was returned, whatever is appended, cleared,
\* deleted or evicted afterwards.
C16_SnapshotIsolated ==
    \A c \in Runs :
        listed[c].called =>
            \A p \in listed[c].ptrs :
                /\ heap[p].ID = listed[c].seen[p].ID
                /\ heap[p].Messages = listed[c].seen[p].Messages

\* ------------------------------------------------- claims on the turns
HasEvent(r, type) == \E i \in 1..Len(run[r].events) : run[r].events[i].Type = type

\* The content of turn r's event of the given type (<<>> without one).
EventContent(r, type) ==
    IF HasEvent(r, type)
    THEN run[r].events[CHOOSE i \in 1..Len(run[r].events) : run[r].events[i].Type = type].Content
    ELSE <<>>

\* Turn r has delivered a final answer.
Succeeded(r) ==
    \/ run[r].kind = "stream" /\ HasEvent(r, "response")
    \/ run[r].kind = "chat" /\ run[r].pc = "done" /\ run[r].response = Answer(r)

FinalAnswer(r) ==
    IF run[r].kind = "stream" THEN EventContent(r, "response") ELSE run[r].response

\* The messages of the session turn r works on.
History(r) == IF held[r] = NoSession THEN <<>> ELSE heap[held[r]].Messages

UserMessageOf(r) == ChatMessage("user", ReqMessage(r))

Occurrences(msgs, m) == Cardinality({i \in 1..Len(msgs) : msgs[i] = m})

\* C1: a streaming run for which CancelExecution returned true while it was
\* mid-execution ends with a "stopped" event, without a "response" event, and
\* without its answer stored as an assistant message in its session.
C1_CancelledRunStops ==
    \A r \in Runs :
        (run[r].kind = "stream" /\ run[r].pc = "done" /\ r \in stoppedLive) =>
            /\ HasEvent(r, "stopped")
            /\ ~HasEvent(r, "response")
            /\ Occurrences(History(r), ChatMessage("assistant", Answer(r))) = 0

\* C4: from the moment the execution_started event of a streaming run is out
\* until the run exits, the registry maps the announced id to the run's
\* cancel function (unless a cancel has already taken it), so a cancel for
\* that id returns true.
C4_StartedMeansRegistered ==
    \A r \in Runs :
        (/\ run[r].kind = "stream"
         /\ HasEvent(r, "execution_started")
         /\ run[r].pc # "done"
         /\ triggered[r] = 0) =>
            executions[run[r].executionID] = r

\* C5: after a streaming run has exited, on whatever path, no entry of the
\* registry holds its cancel function and GetActiveExecutions lists no id
\* of it.
C5_DeregisteredOnExit ==
    \A r \in Runs :
        (run[r].kind = "stream" /\ run[r].pc = "done") =>
            /\ \A id \in ExecIds : executions[id] # r
            /\ \A id \in GetActiveExecutions(executions) : executions[id] # r

\* Both turns were streaming runs and have exited, one on the cancellation
\* path (its entry taken by CancelExecution) and one with a final answer (its
\* entry removed by the deferred RemoveExecution).
C5_Witness ==
    /\ \A r \in Runs : run[r].kind = "stream" /\ run[r].pc = "done"
    /\ \E r \in Runs : HasEvent(r, "stopped") /\ r \in stoppedLive
    /\ \E r \in Runs : HasEvent(r, "response") /\ triggered[r] = 0

\* C6: every in-flight run, of either endpoint, has an entry in the registry
\* while its engine runs (unless a cancel has already taken it), so it can be
\* cancelled by its identifier.
C6_EveryRunRegistered ==
    \A r \in Runs :
        (run[r].pc = "engine" /\ triggered[r] = 0) =>
            \E id \in ExecIds : executions[id] = r

\* The order of a handler's steps.
PcRank(pc) ==
    CASE pc = "idle" -> 0 [] pc = "addUser" -> 1 [] pc = "started" -> 2
      [] pc = "register" -> 3 [] pc = "prompt" -> 4 [] pc = "engine" -> 5
      [] pc = "result" -> 6 [] pc = "exit" -> 7 [] pc = "done" -> 8

\* The one step in which turn r stores its user message, and the one in which
\* it stores its answer, seen as changes of session p.
StoresUser(r, p) ==
    /\ held[r] = p
    /\ run[r].pc = "addUser"
    /\ heap'[p].Messages = Append(heap[p].Messages, UserMessageOf(r))

StoresAnswer(r, p) ==
    /\ held[r] = p
    /\ run[r].pc = "result"
    /\ run[r].err = NilErr
    /\ heap'[p].Messages = Append(heap[p].Messages, ChatMessage("assistant", run[r].result))
    /\ IF run[r].kind = "stream"
       THEN run'[r].events[Len(run'[r].events)] = StreamMessage("response", run[r].result, TRUE)
       ELSE run'[r].response = run[r].result

\* C8: a turn's user message is in its session exactly once from before the
\* engine is invoked; a successful turn's session holds that message and,
\* after it, an assistant message with the final answer; and a session's
\* messages change only by a turn storing its user message on leaving that
\* step or its answer on leaving the result step, each step being left once,
\* so no turn changes its session more than twice.
C8_TwoAppendsInOrder ==
    /\ [](\A r \in Runs :
            /\ Occurrences(History(r), UserMessageOf(r)) =
                   (IF run[r].pc \in {"idle", "addUser"} THEN 0 ELSE 1)
            /\ Succeeded(r) =>
                   \E i, j \in 1..Len(History(r)) :
                       /\ i < j
                       /\ History(r)[i] = UserMessageOf(r)
                       /\ History(r)[j] = ChatMessage("assistant", FinalAnswer(r)))
    /\ [][/\ \A r \in Runs : run'[r].pc # run[r].pc => PcRank(run'[r].pc) > PcRank(run[r].pc)
          /\ \A p \in 1..Len(heap) :
                heap'[p].Messages # heap[p].Messages =>
                    \E r \in Runs :
                        /\ run'[r].pc # run[r].pc
                        /\ \A q \in Runs \ {r} : run'[q] = run[q]
                        /\ StoresUser(r, p) \/ StoresAnswer(r, p)]_vars

\* Two successful turns, one of each endpoint, on one session: its history is
\* the four messages they stored.
C8_Witness ==
    /\ \A r \in Runs : run[r].pc = "done" /\ Succeeded(r)
    /\ \E r, q \in Runs : run[r].kind = "stream" /\ run[q].kind = "chat"
    /\ Len(heap) = 1
    /\ Len(heap[1].Messages) = 4

\* C10: two turns whose requests carry no session id work on two different
\* sessions, and at every moment the history of each is exactly what its own
\* turn has stored so far: nothing, its user message, or its user message and
\* its final answer.
C10_SessionsIndependent ==
    \A r, q \in Runs :
        (/\ r # q
         /\ run[r].pc # "idle" /\ run[q].pc # "idle"
         /\ run[r].SessionID = "" /\ run[q].SessionID = "") =>
            /\ held[r] # held[q]
            /\ heap[held[r]].ID # heap[held[q]].ID
            /\ History(r) =
                   IF run[r].pc = "addUser" THEN <<>>
                   ELSE IF Succeeded(r)
                   THEN <<UserMessageOf(r), ChatMessage("assistant", FinalAnswer(r))>>
                   ELSE <<UserMessageOf(r)>>

\* Both turns got a new session and delivered a final answer.
C10_Witness ==
    /\ \A r \in Runs : run[r].pc = "done" /\ run[r].SessionID = "" /\ Succeeded(r)
    /\ Len(heap) = 2
    /\ \A p \in 1..2 : Len(heap[p].Messages) = 2

\* ------------------------------------------- claims on the event stream
\* The identifiers generateSessionID can produce.
GeneratedIds == {RandIds[i] : i \in DOMAIN RandIds} \cup {TimeIds[i] : i \in DOMAIN TimeIds}

TerminalTypes == {"response", "error", "stopped"}

\* The positions of turn r's events for which P holds are given by type.
EventsOfTypes(r, types) == {i \in 1..Len(run[r].events) : run[r].events[i].Type \in types}

\* C17: the events of a streaming turn begin with the session event, which
\* carries the non-empty id of the turn's session (a generated one when the
\* request carried none), followed at once by the execution_started event
\* with the run's id; every thinking, debug and terminal event comes after
\* these two, and none is sent before them.
C17_StreamOpening ==
    \A r \in Runs :
        run[r].kind = "stream" =>
            LET ev == run[r].events IN
            /\ run[r].pc \in {"idle", "addUser", "started"} <=> ev = <<>>
            /\ ev # <<>> =>
                   /\ Len(ev) >= 2
                   /\ ev[1].Type = "session"
                   /\ ev[1].Content = <<heap[held[r]].ID>>
                   /\ heap[held[r]].ID # ""
                   /\ IF run[r].SessionID = "" THEN heap[held[r]].ID \in GeneratedIds
                      ELSE heap[held[r]].ID = run[r].SessionID
                   /\ ev[2].Type = "execution_started"
                   /\ ev[2].Content = <<run[r].executionID>>
                   /\ run[r].executionID # EmptyId
                   /\ \A i \in 3..Len(ev) : ev[i].Type \in {"thinking", "debug"} \cup TerminalTypes

\* A streaming turn that sent no session id has ended; its stream holds
\* thinking events, a debug event and a response after the two opening events.
C17_Witness ==
    /\ run["r1"].kind = "stream"
    /\ run["r1"].pc = "done"
    /\ run["r1"].SessionID = ""
    /\ EventsOfTypes("r1", {"debug"}) # {}
    /\ EventsOfTypes("r1", {"response"}) # {}
    /\ Len(run["r1"].events) >= 7

\* C18: a streaming run sends no terminal event while it runs, and once it
\* has its result handled its stream holds exactly one event of the types
\* response, error and stopped, which is its last event.
C18_OneTerminalEvent ==
    \A r \in Runs :
        run[r].kind = "stream" =>
            IF run[r].pc \in {"exit", "done"}
            THEN EventsOfTypes(r, TerminalTypes) = {Len(run[r].events)}
            ELSE EventsOfTypes(r, TerminalTypes) = {}

\* A cancelled streaming run has ended: after a debug event, its one terminal
\* event is "stopped".
C18_Witness ==
    /\ run["r1"].kind = "stream"
    /\ run["r1"].pc = "done"
    /\ "r1" \in stoppedLive
    /\ EventsOfTypes("r1", {"debug"}) # {}
    /\ run["r1"].events[Len(run["r1"].events)].Type = "stopped"

\* C19: the stream of a streaming turn that has ended holds exactly one event
\* with complete = true, and it is the last event, whatever the outcome.
C19_OneCompletionEvent ==
    \A r \in Runs :
        (run[r].kind = "stream" /\ run[r].pc = "done") =>
            {i \in 1..Len(run[r].events) : run[r].events[i].Complete} = {Len(run[r].events)}

TimeoutMessage == getErrorMessage(Err("context deadline exceeded"))
GenericMessage == getErrorMessage(Err("engine"))

\* C20: when the run ended with the error of its elapsed deadline, the
\* message the caller gets is the timeout message, which is not the message
\* of a generic failure: in the error event of a streaming turn and in the
\* response of a request/response turn.
C20_TimeoutSurfaced ==
    /\ TimeoutMessage # GenericMessage
    /\ \A r \in Runs :
          (/\ run[r].kind = "stream"
           /\ run[r].pc = "exit"
           /\ run[r].err = Err("request timed out")
           /\ EventsOfTypes(r, {"error"}) # {}) =>
              EventContent(r, "error") = TimeoutMessage
    /\ \A r \in Runs :
          (/\ run[r].kind = "chat"
           /\ run[r].pc = "result"
           /\ run[r].err.kind = "context deadline exceeded") =>
              getErrorMessage(run[r].err) = TimeoutMessage

\* ------------------------------------------ claims on the run's outcome
\* C21: when the parser rejected the engine's output and the recovery pass
\* found no final answer, the error event of the streaming turn carries a
\* message of its own, which is neither the message of a generic failure nor
\* the timeout message.
C21_MalformedSurfaced ==
    \A r \in Runs :
        (/\ run[r].kind = "stream"
         /\ run[r].pc = "exit"
         /\ run[r].err = Err("malformed response")
         /\ EventsOfTypes(r, {"error"}) # {}) =>
            EventContent(r, "error") \notin {GenericMessage, TimeoutMessage}

\* The type of the last event of a stream.
Outcome(events) == events[Len(events)].Type

\* C22: when handleStreamChat handles the result of a failed run, a context
\* cancelled before its deadline gives "stopped", a context whose deadline
\* elapsed before any cancel gives an error event, and a run whose engine
\* call failed with another error than the context's cancellation is not
\* reported as "stopped".
C22_FirstFiredWins ==
    [][\A r \in Runs :
          (StreamResult(r) /\ run[r].err # NilErr) =>
              /\ ctxErr[r] = "Canceled" => Outcome(run'[r].events) = "stopped"
              /\ ctxErr[r] = "DeadlineExceeded" => Outcome(run'[r].events) = "error"
              /\ run[r].err.kind # "context canceled" =>
                     Outcome(run'[r].events) # "stopped"]_vars

\* Turn r holds the error its recovered panic was converted into.
Panicked(r) == run[r].kind = "stream" /\ run[r].err = Err("internal error")

\* What a step of turn r must leave alone: the other turns, and the registry
\* entries under the ids of the other turns.
OthersUntouched(r) ==
    /\ \A q \in Runs \ {r} : run'[q] = run[q] /\ ctxErr'[q] = ctxErr[q]
    /\ \A id \in ExecIds \ {run[r].executionID} : executions'[id] = executions[id]

C24_CleanTwiceIsCleanOnce ==
    (Len(cleanLog) >= 4 /\ hasAgentFormat(cleanLog[2])) => cleanLog[4] = cleanLog[3]

\* The structural keywords of the agent format.
Keywords == {"Thought:", "Action:", "Final Answer:", "Observation:"}

\* C25: with x the response after the hidden-reasoning blocks are stripped
\* (and the white space and the empty input fields repaired), the text
\* returned is the one-step trace "Thought: ...", newline, "Final Answer: "
\* followed by x itself exactly when x holds none of the four keywords, is
\* longer than 50 and has no "i don't" in any case of letters; in every other
\* case the text returned is x unwrapped (the fallback message for an empty x).
C25_WrapsDirectAnswers ==
    Len(cleanLog) >= 2 =>
        LET x == stripAndRepair(cleanLog[1])
            out == cleanLog[2]
            direct == /\ \A i \in 1..Len(x) : x[i] \notin Keywords
                      /\ TextLen(x) > 50
                      /\ \A i \in 1..Len(x) : x[i] \notin {"i don't", "I Don't"} IN
        IF direct
        THEN /\ Len(out) = Len(x) + 5
             /\ out[1] = "Thought:"
             /\ out[3] = NL
             /\ out[4] = "Final Answer:"
             /\ out[5] = SP
             /\ Drop(out, 5) = x
             /\ \A i \in 1..Len(out) : out[i] \in Keywords => i \in {1, 4}
        ELSE out = IF x = <<>> THEN FallbackMessage ELSE x

\* A response of a hidden-reasoning block followed by prose longer than 50
\* has been returned wrapped, the prose itself after the final-answer marker.
C25_Witness ==
    /\ Len(cleanLog) >= 2
    /\ cleanLog[1] = <<"<think>", "</think>", "w60">>
    /\ cleanLog[2] = <<"Thought:", " I can provide a direct answer to this question.", NL,
                       "Final Answer:", SP, "w60">>

\* C26: cleanAgentResponse never returns the empty text, whatever the
\* response: empty, white space, or nothing but hidden-reasoning blocks; and
\* it returns the fallback message whenever the cleaned text is empty.
C26_NeverEmpty ==
    \A i \in 2..Len(cleanLog) :
        /\ cleanLog[i] # <<>>
        /\ TextLen(cleanLog[i]) > 0
        /\ stripAndRepair(cleanLog[i - 1]) = <<>> => cleanLog[i] = FallbackMessage

\* A response of nothing but a hidden-reasoning block has been cleaned, and
\* the fallback message returned.
C26_Witness ==
    /\ Len(cleanLog) >= 2
    /\ cleanLog[1] = <<"<think>", "w5", "</think>">>
    /\ cleanLog[2] = FallbackMessage

\* C27: for a response with an opening "<think>" and no closing "</think>",
\* what cleanAgentResponse returns is what it returns for the part of the
\* response before the first "<think>": all that follows the marker, on its
\* line and on the lines after it, is removed.
C27_OpenMarkerToEnd ==
    LET raw == cleanLog[1]
        plain == \A i \in 1..Len(raw) :
                     raw[i] \notin {"</think>", "<reasoning>", "</reasoning>", "<thi", "nk>"} IN
    (Len(cleanLog) >= 2 /\ plain /\ Contains(raw, "<think>")) =>
        cleanLog[2] = cleanAgentResponse(SubSeq(raw, 1, IndexFrom(raw, "<think>", 1) - 1))

\* ------------------------------------------- claims on the debug events
\* C28: a streaming turn whose request had the debug field off sends no event
\* of type "debug" and no event with Debug set.
C28_DebugOnlyOnRequest ==
    \A r \in Runs :
        (run[r].kind = "stream" /\ ~run[r].Debug) =>
            \A i \in 1..Len(run[r].events) :
                run[r].events[i].Type # "debug" /\ ~run[r].events[i].Debug

\* C29: when the parser rejected the engine's text, the step of
\* executeWithStreaming ends the call (no second call of chains.Run); the run
\* has no error and the text after the marker as its result if and only if
\* cleanAgentResponse of the rejected text, applied once, contains
\* "Final Answer:"; otherwise it has an error and no result.
C29_OneRecoveryPass ==
    [][\A r \in Runs : \A out \in EngineOutcomesDebug(ctxErr[r]) :
          (executeWithStreaming(r, out) /\ out.kind = "unable to parse") =>
              /\ run'[r].pc = "result"
              /\ IF Contains(cleanAgentResponse(out.raw), "Final Answer:")
                 THEN /\ run'[r].err = NilErr
                      /\ \E i \in 1..Len(cleanAgentResponse(out.raw)) :
                            /\ i = IndexFrom(cleanAgentResponse(out.raw), "Final Answer:", 1)
                            /\ run'[r].result = TrimSpace(Drop(cleanAgentResponse(out.raw), i))
                 ELSE /\ run'[r].err # NilErr
                      /\ run'[r].result = <<>>]_vars

\* A streaming turn has the answer recovered from a rejected text as its
\* result, and no error.
C29_Witness ==
    /\ run["r1"].kind = "stream" /\ run["r1"].pc = "result"
    /\ run["r1"].err = NilErr /\ run["r1"].result = <<"w60">>

\* The number in the Step field of a debug event ("<name>_<number>").
StepNumber(msg) == msg.Step[2]

\* C30 as stated: of two debug events of one run, the later carries the
\* greater step number.
C30_StepsIncrease ==
    \A i, j \in 1..Len(sent) :
        i < j => StepNumber(sent[i]) < StepNumber(sent[j])

\* C30: of two debug events of one run, the later carries an iteration that
\* is not smaller and, when the iterations are equal, the greater step
\* number; an event's step number is at least 1, and it is 1 for the event
\* that announces an iteration.
C30_StepsIncreaseInIteration ==
    /\ \A i, j \in 1..Len(sent) :
          i < j => /\ sent[i].Iteration <= sent[j].Iteration
                   /\ sent[i].Iteration = sent[j].Iteration
                          => StepNumber(sent[i]) < StepNumber(sent[j])
    /\ \A i \in 1..Len(sent) :
          /\ StepNumber(sent[i]) >= 1
          /\ sent[i].Step[1] = "llm_start" => StepNumber(sent[i]) = 1

\* Three events sent: two of one iteration with growing step numbers, then
\* the start of the next iteration with the step number back at 1.
C30_Witness ==
    /\ Len(sent) = 3
    /\ sent[1].Iteration = sent[2].Iteration
    /\ StepNumber(sent[1]) < StepNumber(sent[2])
    /\ sent[3].Iteration = sent[2].Iteration + 1
    /\ StepNumber(sent[3]) = 1

\* The keys of the Details map under which a tool's input or output, the
\* agent's reasoning or a response text is sent.
PayloadKeys ==
    {"toolInput", "toolOutput", "reasoning", "finalResponse", "responsePreview", "outputs"}

\* C31: in every debug event sent, a tool input, tool output, reasoning or
\* response text of the Details map has at most LogTruncateLength bytes and
\* the three of "...".
C31_DetailsTruncated ==
    \A i \in 1..Len(sent) :
        \A d \in sent[i].Details :
            d[1] \in PayloadKeys => Len(d[2]) <= LogTruncateLength + 3

\* --------------------------------------------------- claims on the locks
\* C32: a goroutine inside the call of the reasoning engine holds no mutex
\* and waits for none, and a goroutine inside a cancel function does not
\* hold the registry's mutex.
C32_NoLockAcrossCalls ==
    \A g \in Goroutines :
        (Running(g) /\ AtStep(g).act = "call") =>
            /\ AtStep(g).on = "engine" =>
                  \A m \in Mutexes : ~Holds(g, m) /\ g \notin mutex[m].pending
            /\ AtStep(g).on = "cancel" => ~Holds(g, "registry")

\* One goroutine is inside the engine and the other inside a cancel
\* function, while the cleanup goroutine holds the store's mutex.
C32_Witness ==
    /\ Running("g1") /\ AtStep("g1") = L("call", "engine")
    /\ Running("g2") /\ AtStep("g2") = L("call", "cancel")
    /\ mutex["store"].w = "cleanup"

\* The goroutine is inside Lock or RLock and cannot return from it now.
Waiting(g) ==
    /\ Running(g)
    /\ \/ /\ AtStep(g).act = "Lock"
          /\ g \in mutex[AtStep(g).on].pending
          /\ mutex[AtStep(g).on].w # "none" \/ mutex[AtStep(g).on].r # {}
       \/ /\ AtStep(g).act = "RLock"
          /\ mutex[AtStep(g).on].w # "none" \/ mutex[AtStep(g).on].pending # {}

\* C33: the goroutines that are inside an operation are never all waiting
\* for a mutex, and no goroutine takes the store's mutex while it holds a
\* session's.
C33_NoDeadlock ==
    /\ (\E g \in Goroutines : Running(g)) => \E g \in Goroutines : Running(g) /\ ~Waiting(g)
    /\ \A g \in Goroutines :
          \A i, j \in 1..Len(goroutine[g].held) :
              (i < j /\ goroutine[g].held[i] \in SessionMutexes) => goroutine[g].held[j] # "store"

\* GetSessionStats holds the store's mutex and a session's, in that order,
\* while a writer of that session and the cleanup goroutine wait.
C33_Witness ==
    /\ goroutine["g1"].op = "GetSessionStats"
    /\ goroutine["g1"].held = <<"store", "session 2">>
    /\ Waiting("cleanup")
    /\ goroutine["g2"].op = "handleChat"
    /\ AtStep("g2") = L("Lock", "session 1")


\* ------------------------------------------------- claims on termination
\* The run has sent its execution_started event.
Started(r) == run[r].kind = "stream" /\ HasEvent(r, "execution_started")

\* The run has returned, with a terminal event sent and no entry of the
\* registry left that holds its cancel function.
Finished(r) ==
    /\ run[r].pc = "done"
    /\ EventsOfTypes(r, TerminalTypes) # {}
    /\ \A id \in ExecIds : executions[id] # r

\* C34: the reasoning engine returning once its context is cancelled or past
\* its deadline, every streaming run that has started comes to send a
\* terminal event and to leave the registry, and a run for which
\* CancelExecution returned true while it was in flight comes to return.
C34_RunsFinish ==
    \A r \in Runs :
        /\ Started(r) ~> Finished(r)
        /\ (r \in stoppedLive) ~> (run[r].pc = "done")

\* A run was stopped inside the engine and has returned with the stopped
\* event, the other one ran into its deadline.
C34_Witness ==
    /\ "r1" \in stoppedLive /\ Finished("r1") /\ HasEvent("r1", "stopped")
    /\ Finished("r2") /\ ctxErr["r2"] = "DeadlineExceeded" /\ HasEvent("r2", "error")

\* ------------------------------------------------- claims on the refreshes
\* C35: however GetSession, GetOrCreateSession, AddMessage and ClearMessages
\* interleave on a session, no step takes its Updated back to an earlier
\* time.
C35_UpdatedNeverDecreases ==
    [][\A p \in 1..Len(heap) : heap'[p].Updated >= heap[p].Updated]_vars

\* ------------------------------------------------- claims on the prompt
\* The messages of the turn's session without the turn's own user message.
PriorMessages(r) == SelectSeq(History(r), LAMBDA m : m # UserMessageOf(r))

\* The prompt as claimed: the message alone when nothing came before it, else
\* the context rendered from the prior messages, then the message.
PromptOverPrior(r) ==
    IF PriorMessages(r) = <<>> THEN run[r].Message
    ELSE GetConversationContext([heap[held[r]] EXCEPT !.Messages = PriorMessages(r)], ContextLimit)
         \o <<"Human: ">> \o run[r].Message

\* C36: the prompt a turn hands to the engine is its message as it came when
\* its session held no other message, and else the context rendered from the
\* latest ContextLimit of the session's other messages, in their order,
\* followed by the message; the turn's own message is not in that context.
C36_PromptFromPriorMessages ==
    [][\A r \in Runs :
          (run[r].pc = "prompt" /\ run'[r].pc = "engine") =>
              run'[r].messageWithContext = PromptOverPrior(r)]_vars

\* ------------------------------------------- claims on the execution ids
\* The run has registered its cancel function and has not yet deregistered.
Registered(r) == run[r].kind = "stream" /\ run[r].pc \in {"prompt", "engine", "result", "exit"}

\* C37: two streaming runs never have the same execution id, and while a run
\* is between its AddExecution and its RemoveExecution (no CancelExecution
\* being called), the registry holds its cancel function under its id,
\* whatever the other run registers or removes.
C37_HandleStaysRegistered ==
    /\ \A r, o \in Runs :
          (r # o /\ run[r].executionID # EmptyId /\ run[o].executionID # EmptyId) =>
              run[r].executionID # run[o].executionID
    /\ \A r \in Runs : Registered(r) => executions[run[r].executionID] = r

\* C38: the entry CancelExecution removes is the one whose cancel function it
\* has called (or the entry is gone already), whatever other calls came
\* between its lookup and its removal.
C38_RemovesWhatItCancelled ==
    [][\A k \in Callers :
          (stop[k].pc = "invoked" /\ stop'[k].pc = "return") =>
              executions[stop[k].id] \in {NoHandle, stop[k].fn}]_vars

\* ------------------------------------------------- claims on the answers
\* C39: in every session and at every moment, an assistant message comes
\* after the user message of the turn that stored it, whether or not the
\* session is cleared or used by a second turn meanwhile.
C39_AnswerAfterItsQuestion ==
    \A p \in 1..Len(heap) :
        \A j \in 1..Len(heap[p].Messages) :
            heap[p].Messages[j].Role = "assistant" =>
                \E r \in Runs :
                    /\ heap[p].Messages[j].Content = Answer(r)
                    /\ \E i \in 1..(j - 1) : heap[p].Messages[i] = UserMessageOf(r)

\* How often the answer of turn r is in its session as an assistant message.
AnswersStored(r) == Occurrences(History(r), ChatMessage("assistant", Answer(r)))

\* C40: a streaming run has sent a response event only if its session holds,
\* once, the assistant message with the content of that event, stored before
\* the event was sent; an assistant message it stored is followed by its
\* response event; and a run with an error or stopped event stored none.
C40_ResponseIffAnswerStored ==
    \A r \in Runs :
        run[r].kind = "stream" =>
            /\ AnswersStored(r) <= 1
            /\ HasEvent(r, "response") =>
                  AnswersStored(r) = 1 /\ EventContent(r, "response") = Answer(r)
            /\ AnswersStored(r) = 1 => HasEvent(r, "response") \/ run[r].pc = "respond"
            /\ HasEvent(r, "error") \/ HasEvent(r, "stopped") => AnswersStored(r) = 0

\* On one session: the first turn has stored its answer and is yet to send
\* the response event, the second was stopped and has returned.
C40_Witness ==
    /\ held["r1"] = held["r2"]
    /\ run["r1"].pc = "respond" /\ AnswersStored("r1") = 1 /\ ~HasEvent("r1", "response")
    /\ run["r2"].pc = "done" /\ HasEvent("r2", "stopped") /\ AnswersStored("r2") = 0

====
